---------------------------- MODULE Spec2Model ----------------------------
(***************************************************************************)
(* A model of the BCS encoder of iotaledger/bcs-go (package bcs): the      *)
(* Encoder object with its sticky error, the wire primitives, the          *)
(* reflective value walker, the custom-encoder registry and the type-info  *)
(* cache, together with the decoder contracts the encoder is read against. *)
(*                                                                         *)
(* Bytes are the numbers 0..255.  A Go uint64 is kept as its eight bytes,  *)
(* least significant first (a "word"), because TLC's integers are 32 bits  *)
(* wide; small Go integers held by values are ordinary integers.           *)
(***************************************************************************)
EXTENDS Integers, Sequences, FiniteSets, TLC

VARIABLES
    CustomEncoders,             \* var CustomEncoders: type name -> custom encoder
    EnumTypes,                  \* var EnumTypes: interface type -> its variant types
    encoderGlobalTypeInfoCache, \* the shared type-info cache: type -> typeInfo
    enc,                        \* the Encoder the caller holds (with its sink)
    call,                       \* the last operation: its name, argument and result
    input,                      \* codec runs: the value (or byte string) under test
    output                      \* codec runs: what the operation produced

vars == <<CustomEncoders, EnumTypes, encoderGlobalTypeInfoCache, enc, call, input, output>>

-----------------------------------------------------------------------------
(* Bounds of the model.                                                    *)

MaxLen == 2          \* longest slice / map / string drawn as an input
MaxCalls == 2        \* operations on one Encoder before a new one is made
MaxEncoders == 2     \* Encoders made in one run
MaxRoom == 3         \* largest capacity of a sink that runs full

-----------------------------------------------------------------------------
(* Bytes and 64-bit words.                                                 *)

Byte == 0..255

WordLen == 8

Pow2(n) == 2 ^ n

\* The uint64 with value n, for 0 <= n < 2^31.
NatToWord(n) ==
    [i \in 1..WordLen |-> IF i <= 4 THEN (n \div Pow2(8 * (i - 1))) % 256 ELSE 0]

\* uint64(v) of a Go int64 v, for -2^31 <= v < 2^31: two's complement.
IntToWord(v) ==
    [i \in 1..WordLen |->
        IF i <= 3 THEN (v \div Pow2(8 * (i - 1))) % 256
        ELSE IF i = 4 THEN ((v \div Pow2(24)) % 256)
        ELSE IF v < 0 THEN 255 ELSE 0]

ZeroWord == NatToWord(0)

\* v >> 7 on a word.
Shr7(w) ==
    [i \in 1..WordLen |->
        (w[i] \div 128) + (IF i < WordLen THEN (w[i + 1] % 128) * 2 ELSE 0)]

\* v >> (7 * k)
RECURSIVE ShrGroups(_, _)
ShrGroups(w, k) == IF k = 0 THEN w ELSE ShrGroups(Shr7(w), k - 1)

\* a < b on words: the most significant byte that differs decides.
RECURSIVE WordLtFrom(_, _, _)
WordLtFrom(a, b, i) ==
    IF i = 0 THEN FALSE
    ELSE IF a[i] # b[i] THEN a[i] < b[i]
    ELSE WordLtFrom(a, b, i - 1)

WordLt(a, b) == WordLtFrom(a, b, WordLen)

\* The word whose byte i (1 = least significant) is b and whose other bytes are 0.
WordWithByte(i, b) == [j \in 1..WordLen |-> IF j = i THEN b ELSE 0]

\* byte(v) and byte(v | 0x80)
LowByte(w) == w[1]
LowByteCont(w) == IF w[1] >= 128 THEN w[1] ELSE w[1] + 128

-----------------------------------------------------------------------------
(* Types (reflect.Type) and values (reflect.Value).                        *)
(*                                                                         *)
(* A type is a record with its reflect.Kind; a value v is a record         *)
(* [t, x, addr]: its type, its content and whether v.CanAddr().  The       *)
(* content of a bool is [b], of an integer [n], of a string [s] with its    *)
(* bytes, of an array [a] with the sequence of its elements' contents, of  *)
(* a slice [isnil, items, more], of a map [isnil, m, more] with m a        *)
(* function from key contents to value contents, of a pointer              *)
(* [isnil, id, elem] where id tells two pointers to equal values apart.    *)
(* `more` is a uint64: a slice has that many further elements after items, *)
(* each the zero value of its element type, and a map that many further    *)
(* entries; it is how collections longer than 2^16 and 2^32 are held.      *)

TBool == [kind |-> "Bool", name |-> ""]
TInt8 == [kind |-> "Int8", name |-> ""]
TInt16 == [kind |-> "Int16", name |-> ""]
TInt32 == [kind |-> "Int32", name |-> ""]
TInt64 == [kind |-> "Int64", name |-> ""]
TInt == [kind |-> "Int", name |-> ""]
TUint8 == [kind |-> "Uint8", name |-> ""]
TUint16 == [kind |-> "Uint16", name |-> ""]
TUint32 == [kind |-> "Uint32", name |-> ""]
TUint64 == [kind |-> "Uint64", name |-> ""]
TString == [kind |-> "String", name |-> ""]
TSlice(e) == [kind |-> "Slice", name |-> "", elem |-> e]
TArray(n, e) == [kind |-> "Array", name |-> "", len |-> n, elem |-> e]
TMap(k, e) == [kind |-> "Map", name |-> "", key |-> k, elem |-> e]
PointerTo(e) == [kind |-> "Ptr", name |-> "", elem |-> e]
\* struct{}
TEmptyStruct == [kind |-> "Struct", name |-> "", fields |-> <<>>]
\* A defined type: `type name underlying`.
TNamed(n, u) == [u EXCEPT !.name = n]
\* A struct field (reflect.StructField) with what its tag says under the tag
\* name "bcs": the parsed option record and whether the tag is there.
StructField(name, type, isExported, opts, hasTag) ==
    [Name |-> name, Type |-> type, IsExported |-> isExported,
     opts |-> opts, hasTag |-> hasTag]
\* `type name struct { fields }` and `type name interface { ... }`
TStruct(name, fields) == [kind |-> "Struct", name |-> name, fields |-> fields]
TInterface(name) == [kind |-> "Interface", name |-> name]
\* bcs.None, the variant that stands for a nil interface value.
noneT == TStruct("None", <<>>)

SignedKinds == {"Int", "Int8", "Int16", "Int32", "Int64"}
UnsignedKinds == {"Uint", "Uint8", "Uint16", "Uint32", "Uint64"}

NilSlice == [isnil |-> TRUE, items |-> <<>>, more |-> ZeroWord]
NilMap == [isnil |-> TRUE, m |-> <<>>, more |-> ZeroWord]
None == [none |-> TRUE]
BoolV(b) == [b |-> b]
IntV(n) == [n |-> n]
StringV(s) == [s |-> s]
ArrayV(a) == [a |-> a]
NilPtr == [isnil |-> TRUE, id |-> 0, elem |-> None]
StructV(fields) == [f |-> fields]
Slice(items) == [isnil |-> FALSE, items |-> items, more |-> ZeroWord]
Map(m) == [isnil |-> FALSE, m |-> m, more |-> ZeroWord]
\* A slice of n zero values and a map of n entries, n a uint64.
LongSlice(n) == [isnil |-> FALSE, items |-> <<>>, more |-> n]
LongMap(n) == [isnil |-> FALSE, m |-> <<>>, more |-> n]
Ptr(id, x) == [isnil |-> FALSE, id |-> id, elem |-> x]

\* An interface value: nil, or holding the value v of a concrete type.
NilIface == [isnil |-> TRUE, dyn |-> None]
Iface(v) == [isnil |-> FALSE, dyn |-> v]

Value(t, x, addr) == [t |-> t, x |-> x, addr |-> addr]

-----------------------------------------------------------------------------
(* Errors, writers and the Encoder's wire primitives.                      *)
(*                                                                         *)
(* An error is the sequence of the messages of its wrap chain, outermost   *)
(* first; the nil error is the empty sequence.                             *)

NoErr == <<>>
Errorf(msg, wrapped) == <<msg>> \o wrapped

\* An io.Writer: the bytes it has taken and the room it has left (-1: a
\* bytes.Buffer, which never fails).  A writer that runs full takes what fits
\* and reports a short write.
Buffer == [buf |-> <<>>, room |-> -1]
LimitedWriter(room) == [buf |-> <<>>, room |-> room]

WriterWrite(w, b) ==
    IF w.room = -1 \/ Len(b) <= w.room
    THEN [w |-> [buf |-> w.buf \o b,
                 room |-> IF w.room = -1 THEN -1 ELSE w.room - Len(b)],
          err |-> NoErr]
    ELSE [w |-> [buf |-> w.buf \o SubSeq(b, 1, w.room), room |-> 0],
          err |-> <<"io.ErrShortWrite">>]

\* The result of an encoder method that returns an error.
R(e, err) == [e |-> e, err |-> err]

handleErrorf(e, msg, wrapped) ==
    LET err == Errorf(msg, wrapped)
    IN  R([e EXCEPT !.err = err], err)

\* Write without its check of e.err.
WriteUnchecked(e, b) ==
    [e EXCEPT !.w = WriterWrite(e.w, b).w, !.err = WriterWrite(e.w, b).err]

Write(e, b) ==
    IF e.err # NoErr THEN e
    ELSE [e EXCEPT !.w = WriterWrite(e.w, b).w, !.err = WriterWrite(e.w, b).err]

WriteBool(e, v) == IF v THEN Write(e, <<1>>) ELSE Write(e, <<0>>)
WriteByte(e, v) == Write(e, <<v>>)
WriteInt8(e, v) == Write(e, <<v % 256>>)
WriteUint8(e, v) == Write(e, <<v % 256>>)
WriteInt16(e, v) == Write(e, <<v % 256, (v \div 256) % 256>>)
WriteUint16(e, v) == Write(e, <<v % 256, (v \div 256) % 256>>)
\* binary.LittleEndian.PutUint32 / PutUint64 of the word of v
WriteUint32(e, w) == Write(e, SubSeq(w, 1, 4))
WriteInt32(e, v) == WriteUint32(e, IntToWord(v))
WriteUint64(e, w) == Write(e, w)
WriteInt64(e, v) == WriteUint64(e, IntToWord(v))
WriteOptionalFlag(e, hasValue) == IF hasValue THEN Write(e, <<1>>) ELSE Write(e, <<0>>)

\* The n bytes of one case of WriteCompactUint64: byte((v >> 7i) | 0x80) for
\* every byte but the last, byte(v >> 7(n-1)) for the last.
CompactBytes(v, n) ==
    [i \in 1..n |-> IF i < n THEN LowByteCont(ShrGroups(v, i - 1))
                    ELSE LowByte(ShrGroups(v, n - 1))]

\* A WriteCompactUint64 that always writes the ten-byte form.
WriteCompactPadded(e, v) == Write(e, CompactBytes(v, 10))

WriteCompactUint64(e, v) ==
    IF WordLt(v, WordWithByte(1, 128)) THEN Write(e, CompactBytes(v, 1))       \* 0x80
    ELSE IF WordLt(v, WordWithByte(2, 64)) THEN Write(e, CompactBytes(v, 2))   \* 0x4000
    ELSE IF WordLt(v, WordWithByte(3, 32)) THEN Write(e, CompactBytes(v, 3))   \* 0x20_0000
    ELSE IF WordLt(v, WordWithByte(4, 16)) THEN Write(e, CompactBytes(v, 4))   \* 0x1000_0000
    ELSE IF WordLt(v, WordWithByte(5, 8)) THEN Write(e, CompactBytes(v, 5))    \* 0x8_0000_0000
    ELSE IF WordLt(v, WordWithByte(6, 4)) THEN Write(e, CompactBytes(v, 6))    \* 0x400_0000_0000
    ELSE IF WordLt(v, WordWithByte(7, 2)) THEN Write(e, CompactBytes(v, 7))    \* 0x2_0000_0000_0000
    ELSE IF WordLt(v, WordWithByte(8, 1)) THEN Write(e, CompactBytes(v, 8))    \* 0x100_0000_0000_0000
    ELSE IF WordLt(v, WordWithByte(8, 128)) THEN Write(e, CompactBytes(v, 9))  \* 0x8000_0000_0000_0000
    ELSE Write(e, CompactBytes(v, 10))

WriteEnumIdx(e, variantIdx) == WriteCompactUint64(e, IntToWord(variantIdx))
WriteLen(e, length) == WriteCompactUint64(e, IntToWord(length))
WriteString(e, v) == Write(WriteLen(e, Len(v)), v)

-----------------------------------------------------------------------------
(* Type options, custom encoders and the type-info plan.                   *)

Nil == [isnil |-> TRUE]

Len2Bytes == 2
Len4Bytes == 4

\* The zero TypeOptions; ArrayElement, MapKey and MapValue are nil pointers.
ZeroTypeOptions ==
    [isnil |-> FALSE, LenSizeInBytes |-> 0, UnderlyingType |-> "Invalid",
     IsCompactInt |-> FALSE, InterfaceIsNotEnum |-> FALSE,
     ArrayElement |-> Nil, MapKey |-> Nil, MapValue |-> Nil]

ArrayElemOptions(o, asByteArray) ==
    [isnil |-> FALSE, TypeOptions |-> o, AsByteArray |-> asByteArray]

\* FieldOptions: the TypeOptions of the field and its own flags.
FieldOptions(typeOptions, optional, asByteArray, skip, exportAnonymousField) ==
    [TypeOptions |-> typeOptions, Optional |-> optional, AsByteArray |-> asByteArray,
     Skip |-> skip, ExportAnonymousField |-> exportAnonymousField]

ZeroFieldOptions == FieldOptions(ZeroTypeOptions, FALSE, FALSE, FALSE, FALSE)

\* FieldOptionsFromStruct(t, tagName): the option record of every field and
\* whether the field has a tag; only tags under the name "bcs" are written
\* on the structs of the model.  A tag that does not parse is an error.
FieldOptionsFromStruct(t, tagName) ==
    [FieldOptions |-> [i \in 1..Len(t.fields) |->
                          IF tagName = "bcs" THEN t.fields[i].opts ELSE ZeroFieldOptions],
     FieldHasTag |-> [i \in 1..Len(t.fields) |-> tagName = "bcs" /\ t.fields[i].hasTag],
     err |-> IF tagName = "bcs" /\ \E i \in 1..Len(t.fields) : t.fields[i].opts = Nil
             THEN <<"invalid tag">> ELSE NoErr]

\* TypeOptions.Update: what the other record sets wins.
Update(o, other) ==
    [isnil |-> FALSE,
     LenSizeInBytes |-> IF other.LenSizeInBytes # 0 THEN other.LenSizeInBytes
                        ELSE o.LenSizeInBytes,
     UnderlyingType |-> IF other.UnderlyingType # "Invalid" THEN other.UnderlyingType
                        ELSE o.UnderlyingType,
     IsCompactInt |-> other.IsCompactInt \/ o.IsCompactInt,
     InterfaceIsNotEnum |-> other.InterfaceIsNotEnum \/ o.InterfaceIsNotEnum,
     ArrayElement |-> IF other.ArrayElement # Nil THEN other.ArrayElement ELSE o.ArrayElement,
     MapKey |-> IF other.MapKey # Nil THEN other.MapKey ELSE o.MapKey,
     MapValue |-> IF other.MapValue # Nil THEN other.MapValue ELSE o.MapValue]

\* The test suite's types with a MarshalBCS method: on the value
\* (BasicWithCustomCodec, WithCustomCodec) and on the pointer
\* (BasicWithCustomPtrCodec).
BasicWithCustomCodec == TNamed("BasicWithCustomCodec", TString)
BasicWithCustomPtrCodec == TNamed("BasicWithCustomPtrCodec", TString)

ValueReceiverEncodable == {"BasicWithCustomCodec"}
PtrReceiverEncodable == {"BasicWithCustomPtrCodec"}

\* t.Implements(encodableT): the method set of *T holds the methods of T too.
ImplementsEncodable(t) ==
    \/ t.kind # "Ptr" /\ t.name \in ValueReceiverEncodable
    \/ /\ t.kind = "Ptr"
       /\ t.elem.kind # "Ptr"
       /\ t.elem.name \in ValueReceiverEncodable \cup PtrReceiverEncodable

\* No type of the model has a Write(io.Writer) method.
ImplementsWritable(t) == FALSE
\* The struct types with the marker method of a struct-enum.
StructEnumNames == {"StructEnum", "StructEnumWithInt"}
ImplementsStructEnum(t) == t.name \in StructEnumNames

\* The types with a BCSOptions method, which returns
\* TypeOptions{LenSizeInBytes: n}: the name of the type tells n.
LenSizeOfType ==
    [name \in {"Len2", "Len3", "Len4"} |->
        CASE name = "Len2" -> Len2Bytes
          [] name = "Len3" -> 3
          [] name = "Len4" -> Len4Bytes]

ImplementsBCSType(t) == t.name \in DOMAIN LenSizeOfType

\* v.Interface().(BCSType).BCSOptions()
BCSOptions(t) == [ZeroTypeOptions EXCEPT !.LenSizeInBytes = LenSizeOfType[t.name]]

\* A CustomEncoder: where it comes from and what it runs.
CustomEncoderOf(via, f) == [isnil |-> FALSE, via |-> via, f |-> f]

getCustomEncoder(t) ==
    IF t \in DOMAIN CustomEncoders THEN CustomEncoderOf("func", CustomEncoders[t])
    ELSE IF t.kind = "Interface" THEN Nil
    ELSE IF ImplementsEncodable(t) THEN CustomEncoderOf("MarshalBCS", t.kind)
    ELSE IF ImplementsWritable(t) THEN CustomEncoderOf("Write", t.kind)
    ELSE Nil

typeCustomization(customEncoder, isStructEnum, hasTypeOptions) ==
    [CustomEncoder |-> customEncoder, IsStructEnum |-> isStructEnum,
     HasTypeOptions |-> hasTypeOptions]

HasCustomizations(c) ==
    c.CustomEncoder # Nil \/ c.IsStructEnum \/ c.HasTypeOptions

checkTypeCustomizations(t) ==
    LET customEncoder == getCustomEncoder(t)
    IN  IF customEncoder # Nil THEN typeCustomization(customEncoder, FALSE, FALSE)
        ELSE IF t.kind = "Interface" THEN typeCustomization(Nil, FALSE, FALSE)
        ELSE IF t.kind = "Struct" /\ ImplementsStructEnum(t)
             THEN typeCustomization(Nil, TRUE, FALSE)
        ELSE IF ImplementsBCSType(t) THEN typeCustomization(Nil, FALSE, TRUE)
        ELSE typeCustomization(Nil, FALSE, FALSE)

typeInfo(refLevelsCount, c) ==
    [RefLevelsCount |-> refLevelsCount, CustomEncoder |-> c.CustomEncoder,
     IsStructEnum |-> c.IsStructEnum, HasTypeOptions |-> c.HasTypeOptions,
     FieldOptions |-> <<>>, FieldHasTag |-> <<>>]

\* var EnumTypes = make(map[reflect.Type][]reflect.Type)
NoEnumTypes == <<>>

\* The type-info cache of an Encoder: a function from types to plans.
CacheGet(cache, t) == cache[t]
IsCached(cache, t) == t \in DOMAIN cache
CacheAdd(cache, t, res) == (t :> res) @@ cache
\* localTypeInfoCache.Save: the shared cache takes the Encoder's entries.
CacheSave(shared, local) == local @@ shared
EmptyCache == <<>>

\* A plan that takes no pointer layer off.
stripNoPointers(t, refLevelsCount) == typeInfo(refLevelsCount, checkTypeCustomizations(t))

\* The loop of getEncodedTypeInfo over the pointer layers of t: the plan as
\* soon as a layer has a custom encoder, else the plan of the type under them.
RECURSIVE stripPointers(_, _)
stripPointers(t, refLevelsCount) ==
    IF t.kind = "Ptr"
    THEN LET customEncoder == getCustomEncoder(t)
         IN  IF customEncoder # Nil
             THEN typeInfo(refLevelsCount, typeCustomization(customEncoder, FALSE, FALSE))
             ELSE stripPointers(t.elem, refLevelsCount + 1)
    ELSE typeInfo(refLevelsCount, checkTypeCustomizations(t))

\* t with n pointer layers taken off.
RECURSIVE StripN(_, _)
StripN(t, n) == IF n <= 0 THEN t ELSE StripN(t.elem, n - 1)

\* Returns [e, info, err].
getEncodedTypeInfo(e, t) ==
    IF IsCached(e.typeInfoCache, t)
    THEN [e |-> e, info |-> CacheGet(e.typeInfoCache, t), err |-> NoErr]
    ELSE LET ptrEncoder == IF t.kind # "Ptr" THEN getCustomEncoder(PointerTo(t)) ELSE Nil
             res == IF ptrEncoder # Nil
                    THEN typeInfo(-1, typeCustomization(ptrEncoder, FALSE, FALSE))
                    ELSE stripPointers(t, 0)
             under == StripN(t, res.RefLevelsCount)
             parsed == FieldOptionsFromStruct(under, e.cfg.TagName)
             withFields == [res EXCEPT !.FieldOptions = parsed.FieldOptions,
                                       !.FieldHasTag = parsed.FieldHasTag]
         IN  IF ptrEncoder # Nil \/ under.kind # "Struct"
             THEN [e |-> [e EXCEPT !.typeInfoCache = CacheAdd(@, t, res)],
                   info |-> res, err |-> NoErr]
             ELSE IF parsed.err # NoErr
             THEN [e |-> handleErrorf(e, "parsing struct fields options: %v: %w", parsed.err).e,
                   info |-> res,
                   err |-> handleErrorf(e, "parsing struct fields options: %v: %w", parsed.err).err]
             ELSE [e |-> [e EXCEPT !.typeInfoCache = CacheAdd(@, t, withFields)],
                   info |-> withFields, err |-> NoErr]

\* v.Elem() of a pointer; v.Addr() or the pointer to a copy of v.
Elem(v) == Value(v.t.elem, v.x.elem, TRUE)
AddrOf(v) == Value(PointerTo(v.t), Ptr(0, v.x), FALSE)

\* Returns [e, v, err].
RECURSIVE getEncodedValue(_, _, _)
getEncodedValue(e, v, refsCount) ==
    IF refsCount = -1 THEN [e |-> e, v |-> AddrOf(v), err |-> NoErr]
    ELSE IF refsCount = 0 THEN [e |-> e, v |-> v, err |-> NoErr]
    ELSE IF v.x.isnil
         THEN [e |-> handleErrorf(e, "attempt to encode non-optinal nil value of type %v", NoErr).e,
               v |-> v,
               err |-> handleErrorf(e, "attempt to encode non-optinal nil value of type %v", NoErr).err]
         ELSE getEncodedValue(e, Elem(v), refsCount - 1)

-----------------------------------------------------------------------------
(* The value walker.                                                       *)

\* Integer kinds: width in bytes and signedness.
KindBytes(k) ==
    CASE k \in {"Int8", "Uint8"} -> 1
      [] k \in {"Int16", "Uint16"} -> 2
      [] k \in {"Int32", "Uint32"} -> 4
      [] k \in {"Int64", "Uint64", "Int", "Uint"} -> 8

\* From(To(v)) for a 64-bit From: the low bytes of v that To keeps, sign- or
\* zero-extended back to 64 bits.
ConvertBack(w, k) ==
    LET n == KindBytes(k)
        negative == k \in SignedKinds /\ w[n] >= 128
    IN  [i \in 1..WordLen |-> IF i <= n THEN w[i] ELSE IF negative THEN 255 ELSE 0]

\* write(To(v)): e.WriteInt8 ... e.WriteUint64 of the converted value.
convertEncodeNumber2(e, w, k) ==
    IF ConvertBack(w, k) # w
    THEN handleErrorf(e, "value %v is out of range of type %T", NoErr)
    ELSE R(Write(e, SubSeq(w, 1, KindBytes(k))), NoErr)

convertEncodeNumber(e, w, encodedType) ==
    IF encodedType \in SignedKinds \cup UnsignedKinds
    THEN convertEncodeNumber2(e, w, encodedType)
    ELSE handleErrorf(e, "invalid underlaying type %v for type %T", NoErr)

encodeInt(e, v, encodedType) ==
    LET k == v.t.kind
    IN  IF encodedType # "Invalid" /\ encodedType # k
        THEN convertEncodeNumber(e, IntToWord(v.x.n), encodedType)
        ELSE R(CASE k = "Int8" -> WriteInt8(e, v.x.n)
                 [] k = "Int16" -> WriteInt16(e, v.x.n)
                 [] k = "Int32" -> WriteInt32(e, v.x.n)
                 [] k \in {"Int64", "Int"} -> WriteInt64(e, v.x.n), NoErr)

encodeUint(e, v, encodedType) ==
    LET k == v.t.kind
    IN  IF encodedType # "Invalid" /\ encodedType # k
        THEN convertEncodeNumber(e, IntToWord(v.x.n), encodedType)
        ELSE R(CASE k = "Uint8" -> WriteUint8(e, v.x.n)
                 [] k = "Uint16" -> WriteUint16(e, v.x.n)
                 [] k = "Uint32" -> WriteUint32(e, IntToWord(v.x.n))
                 [] k \in {"Uint64", "Uint"} -> WriteUint64(e, IntToWord(v.x.n)), NoErr)

\* bytes.Compare(a, b) < 0
RECURSIVE BytesLess(_, _)
BytesLess(a, b) ==
    IF b = <<>> THEN FALSE
    ELSE IF a = <<>> THEN TRUE
    ELSE IF Head(a) # Head(b) THEN Head(a) < Head(b)
    ELSE BytesLess(Tail(a), Tail(b))

\* sort.Slice(entries, less on .A): a slice this short is insertion-sorted, so
\* entries with equal key bytes stay in the order the map iteration gave them;
\* over all iteration orders this yields every sorted arrangement.
RECURSIVE insertEntry(_, _)
insertEntry(sorted, entry) ==
    IF sorted = <<>> THEN <<entry>>
    ELSE IF BytesLess(entry.A, sorted[Len(sorted)].A)
         THEN insertEntry(SubSeq(sorted, 1, Len(sorted) - 1), entry) \o <<sorted[Len(sorted)]>>
         ELSE sorted \o <<entry>>

\* A sort.Slice that leaves the entries in the order it is given them.
NoSort(entries) == entries

RECURSIVE sortSlice(_)
sortSlice(entries) ==
    IF entries = <<>> THEN <<>>
    ELSE insertEntry(sortSlice(SubSeq(entries, 1, Len(entries) - 1)), entries[Len(entries)])

RECURSIVE SetToSeq(_)
SetToSeq(S) ==
    IF S = {} THEN <<>>
    ELSE LET x == CHOOSE y \in S : TRUE IN <<x>> \o SetToSeq(S \ {x})

\* v.MapRange(): the keys of the map in the order this run of the Go runtime
\* enumerates them, which e.mapOrder (a permutation) stands for.
MapRange(e, v) ==
    LET keys == SetToSeq(DOMAIN v.x.m)
        order == SelectSeq(e.mapOrder, LAMBDA i : i <= Len(keys))
    IN  [i \in 1..Len(keys) |-> keys[order[i]]]

\* The zero value of a type.
RECURSIVE ZeroContent(_)
ZeroContent(t) ==
    CASE t.kind = "Bool" -> BoolV(FALSE)
      [] t.kind \in SignedKinds \cup UnsignedKinds -> IntV(0)
      [] t.kind = "String" -> StringV(<<>>)
      [] t.kind = "Slice" -> NilSlice
      [] t.kind = "Map" -> NilMap
      [] t.kind = "Ptr" -> NilPtr
      [] t.kind = "Array" -> ArrayV([i \in 1..t.len |-> ZeroContent(t.elem)])
      [] t.kind = "Struct" ->
            StructV([i \in 1..Len(t.fields) |-> ZeroContent(t.fields[i].Type)])
      [] t.kind = "Interface" -> NilIface

\* v.Len() of a slice, array or map, as a uint64.
LenOf(v) ==
    IF v.t.kind = "Array" THEN NatToWord(Len(v.x.a))
    ELSE IF v.x.more # ZeroWord THEN v.x.more
    ELSE IF v.t.kind = "Map" THEN NatToWord(Cardinality(DOMAIN v.x.m))
    ELSE NatToWord(Len(v.x.items))

\* n - 1 on a uint64 n > 0.
RECURSIVE DecFrom(_, _)
DecFrom(w, i) ==
    IF w[i] > 0 THEN [w EXCEPT ![i] = @ - 1]
    ELSE DecFrom([w EXCEPT ![i] = 255], i + 1)

DecWord(w) == DecFrom(w, 1)

\* The value of a uint64 below 2^31.
WordToNat(w) == w[1] + 256 * w[2] + 65536 * w[3] + 16777216 * w[4]

\* The listed elements of a slice or array value, and v.Index(i).
Items(v) == IF v.t.kind = "Slice" THEN v.x.items ELSE v.x.a
Index(v, i) == Value(v.t.elem, Items(v)[i], v.t.kind = "Slice" \/ v.addr)

\* getBytes: the writer is swapped for a fresh buffer and put back afterwards.
BeginGetBytes(e) == [e EXCEPT !.w = Buffer]
\* A getBytes that leaves the temporary buffer in place as the sink.
EndGetBytesKeep(orig, r) ==
    [e |-> r.e, bytes |-> r.e.w.buf, err |-> r.err]
EndGetBytes(orig, r) ==
    [e |-> [r.e EXCEPT !.w = orig.w], bytes |-> r.e.w.buf, err |-> r.err]

\* Only({F(r) : r \in {x}}) is LET r == x IN F(r) with x evaluated once.
Only(S) == CHOOSE y \in S : TRUE

\* encodeAsByteArray once the bytes are captured.
encodeAsByteArrayEnd(g) ==
    IF g.err # NoErr THEN R(g.e, g.err)
    ELSE Only({ IF e2.err # NoErr THEN handleErrorf(e2, "bytearr: %w", e2.err)
                ELSE R(e2, NoErr)
              : e2 \in {Write(WriteLen(g.e, Len(g.bytes)), g.bytes)} })

\* reflect.ValueOf(nil)
NilValue == Value([kind |-> "Invalid", name |-> ""], None, FALSE)

RECURSIVE encodeValue(_, _, _, _), encodeStructFields(_, _, _, _),
          encodeArrayElems(_, _, _, _, _),
          encodeMoreElems(_, _, _, _, _),
          encodeMapKeys(_, _, _, _, _, _), encodeMapEntries(_, _, _, _, _),
          Encode(_, _), runCustomEncoder(_, _, _)

\* v.Bytes() of a []byte or [N]byte.
Bytes(v) ==
    [i \in 1..WordToNat(LenOf(v)) |->
        IF i <= Len(Items(v)) THEN Items(v)[i].n % 256 ELSE 0]

encodeArray(e, v, typeOpts) ==
    Only({ IF ti.err # NoErr THEN handleErrorf(ti.e, "element: %w", ti.err)
           ELSE IF /\ ~HasCustomizations(ti.info)
                   /\ v.t.elem.kind = "Uint8"
                   /\ (v.t.kind = "Slice" \/ v.addr)
                   /\ ~typeOpts.ArrayElement.AsByteArray
                THEN R(Write(ti.e, Bytes(v)), NoErr)
                ELSE encodeArrayElems(ti.e, v, typeOpts, ti.info, 1)
         : ti \in {getEncodedTypeInfo(e, v.t.elem)} })

\* One round of the loops of encodeArray, on the element elem.
encodeElem(e, elem, typeOpts, tInfo) ==
    IF typeOpts.ArrayElement.AsByteArray
    THEN encodeAsByteArrayEnd(EndGetBytes(e,
             encodeValue(BeginGetBytes(e), elem, typeOpts.ArrayElement.TypeOptions, tInfo)))
    ELSE encodeValue(e, elem, typeOpts.ArrayElement.TypeOptions, tInfo)

encodeArrayElems(e, v, typeOpts, tInfo, i) ==
    IF i > Len(Items(v))
    THEN IF v.t.kind = "Slice" THEN encodeMoreElems(e, v, typeOpts, tInfo, v.x.more)
         ELSE R(e, NoErr)
    ELSE Only({ IF r.err # NoErr THEN handleErrorf(r.e, "[%v]: %v: %w", r.err)
                ELSE encodeArrayElems(r.e, v, typeOpts, tInfo, i + 1)
              : r \in {encodeElem(e, Index(v, i), typeOpts, tInfo)} })

\* The rounds of the loop over the n further elements of a slice, which are
\* all the same value: once a round leaves the Encoder as it found it, so
\* does every round after it.
encodeMoreElems(e, v, typeOpts, tInfo, n) ==
    IF n = ZeroWord THEN R(e, NoErr)
    ELSE Only({ IF r.err # NoErr THEN handleErrorf(r.e, "[%v]: %v: %w", r.err)
                ELSE IF r.e = e THEN R(e, NoErr)
                ELSE encodeMoreElems(r.e, v, typeOpts, tInfo, DecWord(n))
              : r \in {encodeElem(e, Value(v.t.elem, ZeroContent(v.t.elem), TRUE),
                                  typeOpts, tInfo)} })

\* A length check that lets every length and every ceiling through.
LenCheckNone(e, length, lenSizeInBytes, what) == R(e, NoErr)

\* The length check of encodeSlice and encodeMap.
LenCheck(e, length, lenSizeInBytes, what) ==
    IF lenSizeInBytes = 0 THEN R(e, NoErr)
    ELSE IF lenSizeInBytes = Len2Bytes
         THEN IF WordLt([i \in 1..WordLen |-> IF i <= 2 THEN 255 ELSE 0], length)   \* 0xFFFF
              THEN handleErrorf(e, what \o " length %v exceeds 2 bytes", NoErr)
              ELSE R(e, NoErr)
    ELSE IF lenSizeInBytes = Len4Bytes
         THEN IF WordLt([i \in 1..WordLen |-> IF i <= 4 THEN 255 ELSE 0], length)   \* 0xFFFFFFFF
              THEN handleErrorf(e, what \o " length %v exceeds 4 bytes", NoErr)
              ELSE R(e, NoErr)
    ELSE handleErrorf(e, "invalid collection size type: %v", NoErr)

\* An encodeSlice that writes the elements and no length before them.
encodeSliceBare(e, v, typeOpts) == encodeArray(e, v, typeOpts)

encodeSlice(e, v, typeOpts) ==
    Only({ IF c.err # NoErr THEN c
           ELSE encodeArray(WriteCompactUint64(c.e, LenOf(v)), v, typeOpts)
         : c \in {LenCheck(e, LenOf(v), typeOpts.LenSizeInBytes, "slice")} })

\* The first loop of encodeMap: every key, in iteration order, is encoded
\* into a buffer of its own.  Returns [e, entries, err].
encodeMapKeys(e, v, typeOpts, keyTypeInfo, keys, entries) ==
    IF keys = <<>> THEN [e |-> e, entries |-> entries, err |-> NoErr]
    ELSE Only({ IF g.err # NoErr
                THEN Only({ [e |-> h.e, entries |-> <<>>, err |-> h.err]
                          : h \in {handleErrorf(g.e, "key: %w", g.err)} })
                ELSE encodeMapKeys(g.e, v, typeOpts, keyTypeInfo, Tail(keys),
                         Append(entries, [A |-> g.bytes,
                                          B |-> Value(v.t.elem, v.x.m[Head(keys)], FALSE)]))
              : g \in { EndGetBytes(e, encodeValue(BeginGetBytes(e),
                                        Value(v.t.key, Head(keys), FALSE),
                                        typeOpts.MapKey, keyTypeInfo)) } })

\* The second loop: the sorted entries are written, key bytes then value.
encodeMapEntries(e, typeOpts, valTypeInfo, entries, i) ==
    IF i > Len(entries) THEN R(e, NoErr)
    ELSE Only({ IF r.err # NoErr THEN handleErrorf(r.e, "value: %w", r.err)
                ELSE encodeMapEntries(r.e, typeOpts, valTypeInfo, entries, i + 1)
              : r \in { encodeValue(Write(e, entries[i].A), entries[i].B,
                                    typeOpts.MapValue, valTypeInfo) } })

\* encodeMap after its length check and WriteLen.  It walks the entries of
\* v.x.m: a map with further entries is drawn only where the length check
\* turns it down.
encodeMapBody(e1, v, typeOpts) ==
    Only({ IF kti.err # NoErr THEN handleErrorf(kti.e, "key: %w", kti.err)
           ELSE Only({ IF vti.err # NoErr THEN handleErrorf(vti.e, "value: %w", vti.err)
                       ELSE Only({ IF ks.err # NoErr THEN R(ks.e, ks.err)
                                   ELSE encodeMapEntries(ks.e, typeOpts, vti.info,
                                                         sortSlice(ks.entries), 1)
                                 : ks \in { encodeMapKeys(vti.e, v, typeOpts, kti.info,
                                                          MapRange(vti.e, v), <<>>) } })
                     : vti \in {getEncodedTypeInfo(kti.e, v.t.elem)} })
         : kti \in {getEncodedTypeInfo(e1, v.t.key)} })

encodeMap(e, v, typeOpts) ==
    IF v.x.isnil THEN handleErrorf(e, "attempt to encode non-optional nil-map", NoErr)
    ELSE Only({ IF c.err # NoErr THEN c
                ELSE encodeMapBody(WriteCompactUint64(c.e, LenOf(v)), v, typeOpts)
              : c \in {LenCheck(e, LenOf(v), typeOpts.LenSizeInBytes, "map")} })

\* v.Field(i) and the kinds whose values can be nil.
FieldOf(v, i) == Value(v.t.fields[i].Type, v.x.f[i], v.addr)
NullableKinds == {"Ptr", "Interface", "Map", "Slice"}

\* A check that turns away every nil field that is not optional.
rejectsEveryNil(isNil, optional, fieldKind) == isNil /\ ~optional

\* The check of encodeStruct that a nil field is an error.
rejectsNil(isNil, optional, fieldKind) ==
    isNil /\ ~optional /\ fieldKind # "Interface" /\ fieldKind # "Slice"

\* The end of one round of the loop of encodeStruct: the value of a field
\* that is there.
encodeField(e, v, tInfo, i) ==
    Only({ IF r.err # NoErr THEN handleErrorf(r.e, "%v: %w", r.err)
           ELSE encodeStructFields(r.e, v, tInfo, i + 1)
         : r \in { IF tInfo.FieldOptions[i].AsByteArray
                   THEN encodeAsByteArrayEnd(EndGetBytes(e,
                            encodeValue(BeginGetBytes(e), FieldOf(v, i),
                                        tInfo.FieldOptions[i].TypeOptions, Nil)))
                   ELSE encodeValue(e, FieldOf(v, i),
                                    tInfo.FieldOptions[i].TypeOptions, Nil) } })

\* The loop of encodeStruct from field i on.
encodeStructFields(e, v, tInfo, i) ==
    IF i > Len(v.t.fields) THEN R(e, NoErr)
    ELSE LET fieldOpts == tInfo.FieldOptions[i]
             fieldType == v.t.fields[i]
             fieldVal == FieldOf(v, i)
             nullable == fieldVal.t.kind \in NullableKinds
             isNil == nullable /\ fieldVal.x.isnil
         IN  IF fieldOpts.Skip THEN encodeStructFields(e, v, tInfo, i + 1)
             ELSE IF ~fieldType.IsExported /\ ~fieldOpts.ExportAnonymousField
                  THEN IF tInfo.FieldHasTag[i]
                       THEN handleErrorf(e, "%v: unexported field %v has BCS tag, but is not marked for export", NoErr)
                       ELSE encodeStructFields(e, v, tInfo, i + 1)
             ELSE IF fieldType.IsExported /\ fieldOpts.ExportAnonymousField
                  THEN handleErrorf(e, "%v: field %v is already exported, but is marked for export", NoErr)
             ELSE IF rejectsNil(isNil, fieldOpts.Optional, fieldVal.t.kind)
                  THEN handleErrorf(e, "%v: non-optional nil value", NoErr)
             ELSE IF nullable /\ fieldOpts.Optional
                  THEN IF isNil THEN encodeStructFields(WriteByte(e, 0), v, tInfo, i + 1)
                       ELSE encodeField(WriteByte(e, 1), v, tInfo, i)
             ELSE encodeField(e, v, tInfo, i)

encodeStruct(e, v, tInfo) == encodeStructFields(e, v, tInfo, 1)

\* The loop of getStructEnumVariantIdx from field i on, with the field found
\* so far (-1: none).  Returns [e, idx, err].
RECURSIVE structEnumScan(_, _, _, _)
structEnumScan(e, v, i, enumVariantIdx) ==
    IF i > Len(v.t.fields)
    THEN IF enumVariantIdx = -1
         THEN [e |-> handleErrorf(e, "no options are set in enum struct %v", NoErr).e,
               idx |-> -1,
               err |-> handleErrorf(e, "no options are set in enum struct %v", NoErr).err]
         ELSE [e |-> e, idx |-> enumVariantIdx, err |-> NoErr]
    ELSE IF FieldOf(v, i).t.kind \in NullableKinds
         THEN IF FieldOf(v, i).x.isnil THEN structEnumScan(e, v, i + 1, enumVariantIdx)
              ELSE IF enumVariantIdx # -1
                   THEN [e |-> handleErrorf(e, "multiple options are set in enum struct %v: %v and %v", NoErr).e,
                         idx |-> -1,
                         err |-> handleErrorf(e, "multiple options are set in enum struct %v: %v and %v", NoErr).err]
                   ELSE structEnumScan(e, v, i + 1, i)
         ELSE [e |-> handleErrorf(e, "field %v of enum %v is of non-nullable type %v", NoErr).e,
               idx |-> -1,
               err |-> handleErrorf(e, "field %v of enum %v is of non-nullable type %v", NoErr).err]

\* A search that answers the first field, whatever fields are set.
getStructEnumVariantIdxFirst(e, v) == [e |-> e, idx |-> 0, err |-> NoErr]

\* The index is that of the Go field, which counts from 0.
getStructEnumVariantIdx(e, v) ==
    Only({ [r EXCEPT !.idx = IF @ = -1 THEN -1 ELSE @ - 1]
         : r \in {structEnumScan(e, v, 1, -1)} })

encodeEnum(e, v, variantIdx) ==
    IF v = NilValue THEN R(WriteEnumIdx(e, variantIdx), NoErr)
    ELSE Only({ IF r.err # NoErr THEN handleErrorf(r.e, "%v: %w", r.err)
                ELSE R(r.e, NoErr)
              : r \in {encodeValue(WriteEnumIdx(e, variantIdx), v, Nil, Nil)} })

encodeStructEnum(e, v) ==
    Only({ IF r.err # NoErr THEN R(r.e, r.err)
           ELSE encodeEnum(r.e, FieldOf(v, r.idx + 1), r.idx)
         : r \in {getStructEnumVariantIdx(e, v)} })

\* v.Elem() of an interface value.
IfaceElem(v) == IF v.x.isnil THEN NilValue ELSE Value(v.x.dyn.t, v.x.dyn.x, FALSE)
\* reflect.ValueOf(val) of a value handed over as `any`: what an interface
\* value holds.
ValueOf(v) == IF v.t.kind = "Interface" THEN IfaceElem(v) ELSE v

\* A loop that finds no variant.
NoMatchingVariant(enumVariants, valT) == -1

\* The loop of getInterfaceEnumVariantIdx over the variants: the index of
\* the last one that is valT, or -1.
MatchingVariant(enumVariants, valT) ==
    IF \E id \in 1..Len(enumVariants) : enumVariants[id] = valT
    THEN (CHOOSE id \in 1..Len(enumVariants) :
            /\ enumVariants[id] = valT
            /\ \A j \in (id + 1)..Len(enumVariants) : enumVariants[j] # valT) - 1
    ELSE -1

\* Returns [e, idx, err].
getInterfaceEnumVariantIdx(e, v, enumVariants) ==
    LET valT == IF v.x.isnil THEN noneT ELSE IfaceElem(v).t
        enumVariantIdx == MatchingVariant(enumVariants, valT)
        failed == IF v.x.isnil
                  THEN handleErrorf(e, "bcs.None is not registered as part of enum type %v - cannot encode nil interface enum value", NoErr)
                  ELSE handleErrorf(e, "variant %v is not registered as part of enum type %v", NoErr)
    IN  IF enumVariantIdx = -1 THEN [e |-> failed.e, idx |-> -1, err |-> failed.err]
        ELSE [e |-> e, idx |-> enumVariantIdx, err |-> NoErr]

encodeInterface(e, v, couldBeEnum) ==
    IF ~couldBeEnum \/ (v.t \notin DOMAIN EnumTypes /\ ~e.cfg.InterfaceIsEnumByDefault)
    THEN IF v.x.isnil
         THEN handleErrorf(e, "cannot encode nil interface, which is not enum and not optional", NoErr)
         ELSE encodeValue(e, IfaceElem(v), Nil, Nil)
    ELSE IF v.t \notin DOMAIN EnumTypes
         THEN handleErrorf(e, "interface %v is not registered as enum type", NoErr)
    ELSE Only({ IF r.err # NoErr THEN R(r.e, r.err)
                ELSE encodeEnum(r.e, IfaceElem(v), r.idx)
              : r \in {getInterfaceEnumVariantIdx(e, v, EnumTypes[v.t])} })

\* The switch of encodeValue on v.Kind(); `unknown` marks its default case.
encodeKind(e, v, typeOptions, tInfo) ==
    LET k == v.t.kind
    IN  IF k = "Bool" THEN R(WriteBool(e, v.x.b), NoErr)
        ELSE IF k \in SignedKinds
             THEN IF typeOptions.IsCompactInt
                  THEN R(WriteCompactUint64(e, IntToWord(v.x.n)), NoErr)
                  ELSE encodeInt(e, v, typeOptions.UnderlyingType)
        ELSE IF k \in UnsignedKinds
             THEN IF typeOptions.IsCompactInt
                  THEN R(WriteCompactUint64(e, IntToWord(v.x.n)), NoErr)
                  ELSE encodeUint(e, v, typeOptions.UnderlyingType)
        ELSE IF k = "String" THEN R(WriteString(e, v.x.s), NoErr)
        ELSE IF k = "Slice"
             THEN encodeSlice(e, v,
                      IF typeOptions.ArrayElement = Nil
                      THEN [typeOptions EXCEPT !.ArrayElement = ArrayElemOptions(ZeroTypeOptions, FALSE)]
                      ELSE typeOptions)
        ELSE IF k = "Array"
             THEN encodeArray(e, v,
                      IF typeOptions.ArrayElement = Nil
                      THEN [typeOptions EXCEPT !.ArrayElement = ArrayElemOptions(ZeroTypeOptions, FALSE)]
                      ELSE typeOptions)
        ELSE IF k = "Map"
             THEN encodeMap(e, v,
                      [typeOptions EXCEPT
                          !.MapKey = IF @ = Nil THEN ZeroTypeOptions ELSE @,
                          !.MapValue = IF @ = Nil THEN ZeroTypeOptions ELSE @])
        ELSE IF k = "Struct"
             THEN IF tInfo.IsStructEnum THEN encodeStructEnum(e, v)
                  ELSE encodeStruct(e, v, tInfo)
        ELSE IF k = "Interface"
             THEN encodeInterface(e, v, ~typeOptions.InterfaceIsNotEnum)
        ELSE [e |-> e, err |-> NoErr, unknown |-> TRUE]

\* An encodeValue that takes the nil a custom encoder returns as success.
afterCustomEncoderForgets(c) ==
    IF c.err # NoErr
    THEN handleErrorf([c.e EXCEPT !.err = IF @ = NoErr THEN c.err ELSE @],
                      "%v: custom encoder: %w", c.err)
    ELSE R([c.e EXCEPT !.err = NoErr], NoErr)

\* encodeValue once the custom encoder has returned c.
afterCustomEncoder(c) ==
    IF c.err # NoErr
    THEN handleErrorf([c.e EXCEPT !.err = IF @ = NoErr THEN c.err ELSE @],
                      "%v: custom encoder: %w", c.err)
    ELSE IF c.e.err # NoErr
         THEN handleErrorf(c.e, "%v: custom encoder: %w", c.e.err)
         ELSE R(c.e, NoErr)

\* encodeValue once the switch has returned r.
afterKind(r) ==
    IF "unknown" \in DOMAIN r
    THEN handleErrorf(r.e, "%v: cannot encode unknown type", NoErr)
    ELSE IF r.err # NoErr THEN handleErrorf(r.e, "%v: %w", r.err)
    ELSE IF r.e.err # NoErr THEN handleErrorf(r.e, "%v: %w", r.e.err)
    ELSE R(r.e, NoErr)

\* encodeValue with the plan tInfo in hand.
encodeWithInfo(e, v0, typeOptionsFromTag, tInfo) ==
    Only({ IF gv.err # NoErr THEN handleErrorf(gv.e, "%v: %w", gv.err)
           ELSE IF tInfo.CustomEncoder # Nil
                THEN Only({ afterCustomEncoder(c)
                          : c \in {runCustomEncoder(gv.e, tInfo.CustomEncoder, gv.v)} })
           ELSE Only({ afterKind(r)
                     : r \in { encodeKind(gv.e, gv.v,
                                   IF typeOptionsFromTag # Nil
                                   THEN Update(IF tInfo.HasTypeOptions
                                               THEN BCSOptions(gv.v.t) ELSE ZeroTypeOptions,
                                               typeOptionsFromTag)
                                   ELSE IF tInfo.HasTypeOptions
                                        THEN BCSOptions(gv.v.t) ELSE ZeroTypeOptions,
                                   tInfo) } })
         : gv \in {getEncodedValue(e, v0, tInfo.RefLevelsCount)} })

encodeValue(e0, v0, typeOptionsFromTag, tInfoHint) ==
    IF tInfoHint # Nil THEN encodeWithInfo(e0, v0, typeOptionsFromTag, tInfoHint)
    ELSE Only({ IF ti.err # NoErr THEN R(ti.e, ti.err)
                ELSE encodeWithInfo(ti.e, v0, typeOptionsFromTag, ti.info)
              : ti \in {getEncodedTypeInfo(e0, v0.t)} })

\* Encoder.Encode without its deferred typeInfoCache.Save(), which the
\* operations below apply to the shared cache.
\* Encode without its check of e.err.
EncodeUnchecked(e, val) ==
    IF val = NilValue THEN handleErrorf(e, "cannot encode a nil value", NoErr).e
    ELSE Only({ IF r.err # NoErr THEN handleErrorf(r.e, "encoding %T: %w", r.err).e
                ELSE r.e
              : r \in {encodeValue(e, val, Nil, Nil)} })

Encode(e, val) ==
    IF e.err # NoErr THEN e
    ELSE IF val = NilValue THEN handleErrorf(e, "cannot encode a nil value", NoErr).e
    ELSE Only({ IF r.err # NoErr THEN handleErrorf(r.e, "encoding %T: %w", r.err).e
                ELSE r.e
              : r \in {encodeValue(e, val, Nil, Nil)} })

\* A custom encoder at work.  The MarshalBCS of the test suite's string types
\* writes 1, 2, 3 and encodes the string; a registered function is one of:
\*   "Write123"     writes 1, 2, 3 and returns nil
\*   "Fail"         returns an error
\*   "EncodeNil"    writes 1, calls e.Encode(nil), writes 9 and returns nil
\*   "EncodeInt32"  returns an error for a nil pointer; else calls
\*                  e.Encode(int32(v)) (or int32(*v)) and returns nil
runCustomEncoder(e, customEncoder, v) ==
    IF customEncoder.via = "func"
    THEN CASE customEncoder.f = "Write123" -> R(Write(e, <<1, 2, 3>>), NoErr)
           [] customEncoder.f = "Fail" -> R(e, <<"custom failure">>)
           [] customEncoder.f = "EncodeNil" ->
                R(Write(Encode(Write(e, <<1>>), NilValue), <<9>>), NoErr)
           [] customEncoder.f = "EncodeInt32" ->
                IF v.t.kind = "Ptr" /\ v.x.isnil THEN R(e, <<"nil pointer">>)
                ELSE R(Encode(e, Value(TInt32,
                                       IF v.t.kind = "Ptr" THEN v.x.elem ELSE v.x, FALSE)),
                       NoErr)
    ELSE R(Encode(Write(e, <<1, 2, 3>>),
                  Value(TString, IF v.t.kind = "Ptr" THEN v.x.elem ELSE v.x, FALSE)),
           NoErr)

-----------------------------------------------------------------------------
(* Encoders and the top-level operations.                                  *)

DefaultTagName == "bcs"

InitializeDefaults(cfg) ==
    IF cfg.TagName = "" THEN [cfg EXCEPT !.TagName = DefaultTagName] ELSE cfg

EncoderConfig == [TagName |-> "", InterfaceIsEnumByDefault |-> FALSE]

\* The orders in which a map of up to MaxLen entries can be enumerated.
MapOrders ==
    {p \in [1..MaxLen -> 1..MaxLen] : \A i, j \in 1..MaxLen : p[i] = p[j] => i = j}

\* The Encoder struct, with the number of the Encoder (id), the count of the
\* calls made on it and the map iteration order of the current call.
NewEncoderWithOpts(dest, cfg, id) ==
    [cfg |-> InitializeDefaults(cfg), w |-> dest, err |-> NoErr,
     typeInfoCache |-> encoderGlobalTypeInfoCache,
     id |-> id, calls |-> 0, mapOrder |-> [i \in 1..MaxLen |-> i]]

NewEncoder(dest, id) == NewEncoderWithOpts(dest, EncoderConfig, id)

\* Whether Encode gets as far as its `defer e.typeInfoCache.Save()`.
EncodeSaves(e, val) == e.err = NoErr /\ val # NilValue

EncodeOptional(e, val) ==
    IF e.err # NoErr THEN e
    ELSE IF val.t.kind \notin {"Ptr", "Interface", "Map"}
         THEN handleErrorf(e, "optional value must be a pointer, interface or map, got %v", NoErr).e
    ELSE IF val.x.isnil THEN WriteByte(e, 0)
    ELSE Encode(WriteByte(e, 1), val)

\* MarshalStream(v, dest) with v the pointer val: the Encoder when it returns.
MarshalStream(val, dest, order) ==
    Encode([NewEncoder(dest, 0) EXCEPT !.mapOrder = order], val)

\* Marshal's two results.
MarshalResult(e) ==
    IF e.err # NoErr THEN [bytes |-> <<>>, err |-> e.err]
    ELSE [bytes |-> e.w.buf, err |-> NoErr]

-----------------------------------------------------------------------------
(* The program: callers make Encoders, encode values and write primitives  *)
(* through them, marshal values and change the custom-encoder registry.    *)

Int16Ptr(id, n) == Value(PointerTo(TInt16), Ptr(id, IntV(n)), FALSE)

\* The values handed to Encode, EncodeOptional and Marshal: nil, pointers to
\* an int16, a nil pointer, a pointer to a slice of int16 pointers (one of
\* them nil), a pointer to a map, a string with a MarshalBCS method.
EncodeInputs ==
    { NilValue,
      Int16Ptr(1, 3),
      Int16Ptr(1, -3),
      Value(PointerTo(TInt16), NilPtr, FALSE),
      Value(PointerTo(TSlice(PointerTo(TInt16))),
            Ptr(1, Slice(<<Ptr(2, IntV(1)), NilPtr>>)), FALSE),
      Value(PointerTo(TMap(TInt16, TBool)),
            Ptr(1, Map((IntV(3) :> BoolV(TRUE)) @@ (IntV(-3) :> BoolV(FALSE)))), FALSE),
      Value(PointerTo(BasicWithCustomCodec), Ptr(1, StringV(<<97>>)), FALSE),
      Value(TString, StringV(<<97, 98>>), FALSE) }

\* The values a program marshals while it also changes the registry.
MarshalInputs ==
    { Int16Ptr(1, 3),
      Value(PointerTo(TInt16), NilPtr, FALSE),
      Value(PointerTo(TSlice(PointerTo(TInt16))),
            Ptr(1, Slice(<<Ptr(2, IntV(1)), Ptr(3, IntV(2))>>)), FALSE),
      Value(PointerTo(BasicWithCustomCodec), Ptr(1, StringV(<<97>>)), FALSE) }

\* The sinks an Encoder is made on.
Dests == {Buffer} \cup {LimitedWriter(room) : room \in 0..MaxRoom}

\* The Write* primitives with the arguments they are called with.
WriteCalls ==
    {[op |-> "Write", arg |-> StringV(b)] : b \in {<<>>, <<7>>, <<7, 8>>}}
    \cup {[op |-> "WriteBool", arg |-> BoolV(b)] : b \in BOOLEAN}
    \cup {[op |-> "WriteOptionalFlag", arg |-> BoolV(b)] : b \in BOOLEAN}
    \cup {[op |-> o, arg |-> IntV(200)] : o \in {"WriteByte", "WriteUint8", "WriteUint16",
                                            "WriteUint32", "WriteUint64", "WriteUint",
                                            "WriteLen", "WriteEnumIdx", "WriteCompactUint64"}}
    \cup {[op |-> o, arg |-> IntV(-2)] : o \in {"WriteInt8", "WriteInt16", "WriteInt32",
                                           "WriteInt64", "WriteInt"}}
    \cup {[op |-> "WriteString", arg |-> StringV(<<97>>)]}

WritePrimitive(e, c) ==
    CASE c.op = "Write" -> Write(e, c.arg.s)
      [] c.op = "WriteBool" -> WriteBool(e, c.arg.b)
      [] c.op = "WriteOptionalFlag" -> WriteOptionalFlag(e, c.arg.b)
      [] c.op = "WriteByte" -> WriteByte(e, c.arg.n)
      [] c.op = "WriteInt8" -> WriteInt8(e, c.arg.n)
      [] c.op = "WriteUint8" -> WriteUint8(e, c.arg.n)
      [] c.op = "WriteInt16" -> WriteInt16(e, c.arg.n)
      [] c.op = "WriteUint16" -> WriteUint16(e, c.arg.n)
      [] c.op = "WriteInt32" -> WriteInt32(e, c.arg.n)
      [] c.op = "WriteUint32" -> WriteUint32(e, IntToWord(c.arg.n))
      [] c.op \in {"WriteInt64", "WriteInt"} -> WriteInt64(e, c.arg.n)
      [] c.op \in {"WriteUint64", "WriteUint"} -> WriteUint64(e, IntToWord(c.arg.n))
      [] c.op = "WriteString" -> WriteString(e, c.arg.s)
      [] c.op = "WriteEnumIdx" -> WriteEnumIdx(e, c.arg.n)
      [] c.op = "WriteLen" -> WriteLen(e, c.arg.n)
      [] c.op = "WriteCompactUint64" -> WriteCompactUint64(e, IntToWord(c.arg.n))

\* The types a custom encoder function is registered for, and the functions.
RegisteredTypes == {TInt16, PointerTo(TInt16)}
CustomFuncs == {"Write123", "Fail"}

NoInput == [kind |-> "none"]
NoOutput == [kind |-> "none"]

\* The Encoder after a call: the enumeration order was the call's, not the
\* Encoder's.
Counted(e) == [e EXCEPT !.calls = @ + 1, !.mapOrder = [i \in 1..MaxLen |-> i]]

\* The registry as the program's init functions leave it.
StartupRegistries ==
    {<<>>} \cup {(t :> f) : t \in RegisteredTypes, f \in CustomFuncs}

Init ==
    /\ CustomEncoders \in StartupRegistries
    /\ EnumTypes = NoEnumTypes
    /\ encoderGlobalTypeInfoCache = EmptyCache
    /\ \E dest \in Dests : enc = NewEncoderWithOpts(dest, EncoderConfig, 1)
    /\ call = [op |-> "NewEncoder"]
    /\ input = NoInput
    /\ output = NoOutput

DoNewEncoder ==
    /\ enc.id < MaxEncoders
    /\ \E dest \in Dests : enc' = NewEncoder(dest, enc.id + 1)
    /\ call' = [op |-> "NewEncoder"]
    /\ UNCHANGED <<EnumTypes, CustomEncoders, encoderGlobalTypeInfoCache, input, output>>

DoEncode ==
    /\ enc.calls < MaxCalls
    /\ \E val \in EncodeInputs, order \in MapOrders :
        \E e \in {Encode([enc EXCEPT !.mapOrder = order], val)} :
            /\ enc' = Counted(e)
            /\ encoderGlobalTypeInfoCache' =
                  IF EncodeSaves(enc, val)
                  THEN CacheSave(encoderGlobalTypeInfoCache, e.typeInfoCache)
                  ELSE encoderGlobalTypeInfoCache
            /\ call' = [op |-> "Encode", arg |-> val]
    /\ UNCHANGED <<EnumTypes, CustomEncoders, input, output>>

\* EncodeOptional(nil) panics where it names the type of its argument
\* (v.Type() of the zero reflect.Value): the program ends there.
DoEncodeOptional ==
    /\ enc.calls < MaxCalls
    /\ \E val \in EncodeInputs \ {NilValue}, order \in MapOrders :
        \E e0 \in {[enc EXCEPT !.mapOrder = order]} :
        \E e \in {EncodeOptional(e0, val)} :
            /\ enc' = Counted(e)
            /\ encoderGlobalTypeInfoCache' =
                  IF /\ e0.err = NoErr
                     /\ val.t.kind \in {"Ptr", "Interface", "Map"}
                     /\ ~val.x.isnil
                     /\ EncodeSaves(WriteByte(e0, 1), val)
                  THEN CacheSave(encoderGlobalTypeInfoCache, e.typeInfoCache)
                  ELSE encoderGlobalTypeInfoCache
            /\ call' = [op |-> "EncodeOptional", arg |-> val]
    /\ UNCHANGED <<EnumTypes, CustomEncoders, input, output>>

DoWrite ==
    /\ enc.calls < MaxCalls
    /\ \E c \in WriteCalls :
        /\ enc' = Counted(WritePrimitive(enc, c))
        /\ call' = [op |-> c.op, arg |-> c.arg]
    /\ UNCHANGED <<EnumTypes, CustomEncoders, encoderGlobalTypeInfoCache, input, output>>

\* MarshalStream(val, dest) on an Encoder of its own; Marshal is the case of
\* a bytes.Buffer.
DoMarshalStream ==
    /\ \E val \in MarshalInputs, dest \in Dests, order \in MapOrders :
        \E e \in {MarshalStream(val, dest, order)} :
            /\ encoderGlobalTypeInfoCache' =
                  CacheSave(encoderGlobalTypeInfoCache, e.typeInfoCache)
            /\ call' = [op |-> "MarshalStream", arg |-> val, dest |-> dest,
                        written |-> e.w.buf, err |-> e.err]
    /\ UNCHANGED <<EnumTypes, CustomEncoders, enc, input, output>>

AddCustomEncoder ==
    /\ \E t \in RegisteredTypes, f \in CustomFuncs :
        CustomEncoders' = (t :> f) @@ CustomEncoders
    /\ call' = [op |-> "AddCustomEncoder"]
    /\ UNCHANGED <<EnumTypes, encoderGlobalTypeInfoCache, enc, input, output>>

RemoveCustomEncoder ==
    /\ \E t \in RegisteredTypes :
        CustomEncoders' = [u \in DOMAIN CustomEncoders \ {t} |-> CustomEncoders[u]]
    /\ call' = [op |-> "RemoveCustomEncoder"]
    /\ UNCHANGED <<EnumTypes, encoderGlobalTypeInfoCache, enc, input, output>>

\* A program that fills the registry at startup and then drives Encoders.
Next ==
    \/ DoNewEncoder
    \/ DoEncode
    \/ DoEncodeOptional
    \/ DoWrite

Spec == Init /\ [][Next]_vars

\* A program that marshals values and changes the registry as it runs.
NextMarshal ==
    \/ DoMarshalStream
    \/ AddCustomEncoder
    \/ RemoveCustomEncoder

SpecMarshal == Init /\ [][NextMarshal]_vars

-----------------------------------------------------------------------------
(* The decoder, as the specification describes it: the mirror of the       *)
(* encoder.  ULEB128 numbers of up to ten bytes are taken whether minimal   *)
(* or not, a bool is 0 or 1, a read past the end of the input is an         *)
(* end-of-input error, a map turns down a key whose bytes it has seen, and  *)
(* Unmarshal turns down trailing bytes.  A decoded slice is never nil and   *)
(* every decoded pointer has the id 0.                                      *)

\* The result of a decoding step: the content read, the input left, the error.
Decoded(x, rest, err) == [x |-> x, rest |-> rest, err |-> err]
DecodeError(msg, wrapped) == Decoded(None, <<>>, Errorf(msg, wrapped))

\* errors.Is(err, io.EOF)
IsEOF(err) == \E i \in 1..Len(err) : err[i] = "io.EOF"

\* Bit b (0 = least significant) of the number whose base-128 digits are groups.
GroupsBit(groups, b) ==
    IF b \div 7 < Len(groups) THEN (groups[(b \div 7) + 1] \div Pow2(b % 7)) % 2 ELSE 0

\* The uint64 with the base-128 digits groups, least significant first.
GroupsToWord(groups) ==
    [j \in 1..WordLen |->
        GroupsBit(groups, 8 * (j - 1)) + 2 * GroupsBit(groups, 8 * (j - 1) + 1)
        + 4 * GroupsBit(groups, 8 * (j - 1) + 2) + 8 * GroupsBit(groups, 8 * (j - 1) + 3)
        + 16 * GroupsBit(groups, 8 * (j - 1) + 4) + 32 * GroupsBit(groups, 8 * (j - 1) + 5)
        + 64 * GroupsBit(groups, 8 * (j - 1) + 6) + 128 * GroupsBit(groups, 8 * (j - 1) + 7)]

\* The longest a ULEB128 number is on the wire.
MaxCompactLen == 10

\* ReadCompactUint64: the bytes up to the first one without the high bit.
RECURSIVE ReadCompactFrom(_, _)
ReadCompactFrom(b, groups) ==
    IF Len(groups) = MaxCompactLen THEN DecodeError("compact uint64 overflow", NoErr)
    ELSE IF b = <<>> THEN DecodeError("reading compact uint64: %w", <<"io.EOF">>)
    ELSE IF Head(b) >= 128 THEN ReadCompactFrom(Tail(b), Append(groups, Head(b) % 128))
    ELSE Decoded(GroupsToWord(Append(groups, Head(b))), Tail(b), NoErr)

ReadCompactUint64(b) == ReadCompactFrom(b, <<>>)

\* A ReadN that reports a short input as io.ErrUnexpectedEOF, as io.ReadFull
\* does, which errors.Is does not take for io.EOF.
ReadNUnexpectedEOF(b, n) ==
    IF WordLt(NatToWord(Len(b)), n)
    THEN DecodeError("reading bytes: %w", <<"io.ErrUnexpectedEOF">>)
    ELSE Decoded(SubSeq(b, 1, WordToNat(n)), SubSeq(b, WordToNat(n) + 1, Len(b)), NoErr)

\* ReadN(n): the next n bytes, n a uint64; end of input if there are fewer.
ReadN(b, n) ==
    IF WordLt(NatToWord(Len(b)), n) THEN DecodeError("reading bytes: %w", <<"io.EOF">>)
    ELSE Decoded(SubSeq(b, 1, WordToNat(n)), SubSeq(b, WordToNat(n) + 1, Len(b)), NoErr)

\* The integer of kind k in its little-endian bytes bs (within 32 bits).
IntOfBytes(bs, k) ==
    LET low == bs[1] + (IF Len(bs) >= 2 THEN 256 * bs[2] ELSE 0)
                     + (IF Len(bs) >= 4 THEN 65536 * bs[3] + 16777216 * (bs[4] % 128) ELSE 0)
        top == bs[IF Len(bs) >= 4 THEN 4 ELSE Len(bs)] >= 128
    IN  IF Len(bs) >= 4
        THEN IF top THEN low - 2147483647 - 1 ELSE low
        ELSE IF top /\ k \in SignedKinds THEN low - Pow2(8 * Len(bs)) ELSE low

RECURSIVE DecodeValue(_, _), DecodeElems(_, _, _, _), DecodeEntries(_, _, _, _, _)

\* The n elements of a slice or array, n a uint64.
DecodeElems(t, b, n, acc) ==
    IF n = ZeroWord THEN Decoded(acc, b, NoErr)
    ELSE Only({ IF r.err # NoErr THEN DecodeError("[%v]: %w", r.err)
                ELSE DecodeElems(t, r.rest, DecWord(n), Append(acc, r.x))
              : r \in {DecodeValue(t, b)} })

\* The n entries of a map; seen holds the key bytes read so far.
DecodeEntries(t, b, n, acc, seen) ==
    IF n = ZeroWord THEN Decoded(acc, b, NoErr)
    ELSE Only({ IF k.err # NoErr THEN DecodeError("key: %w", k.err)
                ELSE IF SubSeq(b, 1, Len(b) - Len(k.rest)) \in seen
                     THEN DecodeError("duplicate map key", NoErr)
                ELSE Only({ IF v.err # NoErr THEN DecodeError("value: %w", v.err)
                            ELSE DecodeEntries(t, v.rest, DecWord(n),
                                     acc \cup {<<k.x, v.x>>},
                                     seen \cup {SubSeq(b, 1, Len(b) - Len(k.rest))})
                          : v \in {DecodeValue(t.elem, k.rest)} })
              : k \in {DecodeValue(t.key, b)} })

\* Decoding a value of type t from b.  The content of a decoded map is the
\* set of its <<key, value>> pairs.
DecodeValue(t, b) ==
    CASE t.kind = "Bool" ->
            IF b = <<>> THEN DecodeError("reading bool: %w", <<"io.EOF">>)
            ELSE IF Head(b) \notin {0, 1} THEN DecodeError("invalid bool value", NoErr)
            ELSE Decoded(BoolV(Head(b) = 1), Tail(b), NoErr)
      [] t.kind \in SignedKinds \cup UnsignedKinds ->
            Only({ IF r.err # NoErr THEN r ELSE Decoded(IntV(IntOfBytes(r.x, t.kind)), r.rest, NoErr)
                 : r \in {ReadN(b, NatToWord(KindBytes(t.kind)))} })
      [] t.kind = "String" ->
            Only({ IF n.err # NoErr THEN n
                   ELSE Only({ IF r.err # NoErr THEN r ELSE Decoded(StringV(r.x), r.rest, NoErr)
                             : r \in {ReadN(n.rest, n.x)} })
                 : n \in {ReadCompactUint64(b)} })
      [] t.kind = "Slice" ->
            Only({ IF n.err # NoErr THEN n
                   ELSE IF t.elem.kind = "Uint8" /\ t.elem.name = ""
                        THEN Only({ IF r.err # NoErr THEN r
                                    ELSE Decoded(Slice([i \in 1..Len(r.x) |-> IntV(r.x[i])]),
                                                 r.rest, NoErr)
                                  : r \in {ReadN(n.rest, n.x)} })
                   ELSE Only({ IF r.err # NoErr THEN r ELSE Decoded(Slice(r.x), r.rest, NoErr)
                             : r \in {DecodeElems(t.elem, n.rest, n.x, <<>>)} })
                 : n \in {ReadCompactUint64(b)} })
      [] t.kind = "Array" ->
            Only({ IF r.err # NoErr THEN r ELSE Decoded(ArrayV(r.x), r.rest, NoErr)
                 : r \in {DecodeElems(t.elem, b, NatToWord(t.len), <<>>)} })
      [] t.kind = "Map" ->
            Only({ IF n.err # NoErr THEN n
                   ELSE DecodeEntries(t, n.rest, n.x, {}, {})
                 : n \in {ReadCompactUint64(b)} })
      [] t.kind = "Ptr" ->
            Only({ IF r.err # NoErr THEN r ELSE Decoded(Ptr(0, r.x), r.rest, NoErr)
                 : r \in {DecodeValue(t.elem, b)} })
      [] t.kind = "Struct" -> Decoded(StructV(<<>>), b, NoErr)

\* Unmarshal[T](b): all of b must be used up.
Unmarshal(t, b) ==
    Only({ IF r.err # NoErr THEN [x |-> None, err |-> Errorf("decoding: %w", r.err)]
           ELSE IF r.rest # <<>> THEN [x |-> None, err |-> <<"excess bytes">>]
           ELSE [x |-> r.x, err |-> NoErr]
         : r \in {DecodeValue(t, b)} })

\* A content as the decoder would hold it: no nil slice, every pointer with
\* the id 0, a map as the set of its pairs.  Two values are equal for the
\* round trip when these agree.
RECURSIVE Comparable(_, _)
Comparable(t, x) ==
    CASE t.kind = "Slice" -> Slice([i \in 1..Len(x.items) |-> Comparable(t.elem, x.items[i])])
      [] t.kind = "Array" -> ArrayV([i \in 1..Len(x.a) |-> Comparable(t.elem, x.a[i])])
      [] t.kind = "Map" ->
            IF x.isnil THEN x
            ELSE {<<Comparable(t.key, k), Comparable(t.elem, x.m[k])>> : k \in DOMAIN x.m}
      [] t.kind = "Ptr" -> IF x.isnil THEN x ELSE Ptr(0, Comparable(t.elem, x.elem))
      [] OTHER -> x

-----------------------------------------------------------------------------
(* The compact-integer primitives on their own: a program that writes      *)
(* lengths, enum indices and compact integers through one Encoder.         *)

\* The uint64 2^k, for 0 <= k < 64.
Pow2Word(k) == WordWithByte((k \div 8) + 1, Pow2(k % 8))

\* The uint64 2^k - 1.
Pow2WordLess1(k) ==
    [i \in 1..WordLen |->
        IF i <= k \div 8 THEN 255
        ELSE IF i = (k \div 8) + 1 THEN Pow2(k % 8) - 1 ELSE 0]

\* The uint64 2^k + 1, for 0 < k < 64.
Pow2WordPlus1(k) == [Pow2Word(k) EXCEPT ![1] = @ + 1]

\* The uint64 arguments: 0, 1, 300, 2^64 - 1 and the values around 2^7, 2^14, ..., 2^63.
WireWords ==
    {ZeroWord, NatToWord(1), NatToWord(300), [i \in 1..WordLen |-> 255]}
    \cup UNION {{Pow2WordLess1(7 * n), Pow2Word(7 * n), Pow2WordPlus1(7 * n)} : n \in 1..9}

\* The int arguments of WriteLen and WriteEnumIdx.
WireInts == {0, 1, 127, 128, 16383, 16384, 2097151, 2097152, 268435455, 268435456,
             2147483647, -1}

InitWire ==
    /\ CustomEncoders = <<>>
    /\ EnumTypes = NoEnumTypes
    /\ encoderGlobalTypeInfoCache = EmptyCache
    /\ enc = NewEncoder(Buffer, 1)
    /\ call = [op |-> "NewEncoder"]
    /\ input \in {[kind |-> "uint64", w |-> w] : w \in WireWords}
    /\ output = NoOutput

\* What a call that took enc to e wrote.
Written(e) == SubSeq(e.w.buf, Len(enc.w.buf) + 1, Len(e.w.buf))

DoWriteCompactUint64 ==
    /\ enc.calls < MaxCalls
    /\ \E e \in {WriteCompactUint64(enc, input.w)} :
        /\ enc' = Counted(e)
        /\ output' = [kind |-> "compact", v |-> input.w, bytes |-> Written(e)]
    /\ call' = [op |-> "WriteCompactUint64"]
    /\ UNCHANGED <<EnumTypes, CustomEncoders, encoderGlobalTypeInfoCache, input>>

DoWriteLen ==
    /\ enc.calls < MaxCalls
    /\ \E length \in WireInts :
       \E e \in {WriteLen(enc, length)} :
        /\ enc' = Counted(e)
        /\ output' = [kind |-> "compact", v |-> IntToWord(length), bytes |-> Written(e)]
    /\ call' = [op |-> "WriteLen"]
    /\ UNCHANGED <<EnumTypes, CustomEncoders, encoderGlobalTypeInfoCache, input>>

DoWriteEnumIdx ==
    /\ enc.calls < MaxCalls
    /\ \E variantIdx \in WireInts :
       \E e \in {WriteEnumIdx(enc, variantIdx)} :
        /\ enc' = Counted(e)
        /\ output' = [kind |-> "compact", v |-> IntToWord(variantIdx), bytes |-> Written(e)]
    /\ call' = [op |-> "WriteEnumIdx"]
    /\ UNCHANGED <<EnumTypes, CustomEncoders, encoderGlobalTypeInfoCache, input>>

NextWire ==
    \/ DoWriteCompactUint64
    \/ DoWriteLen
    \/ DoWriteEnumIdx

SpecWire == InitWire /\ [][NextWire]_vars

\* The reference ULEB128 encoding of a uint64: seven bits per byte, least
\* significant group first, the high bit on every byte but the last.
RECURSIVE ULEB128(_)
ULEB128(w) ==
    IF Shr7(w) = ZeroWord THEN <<w[1] % 128>>
    ELSE <<128 + (w[1] % 128)>> \o ULEB128(Shr7(w))

\* The table of lengths: n bytes for 2^(7(n-1)) <= v < 2^(7n), 10 from 2^63 on.
ULEB128Len(w) ==
    IF \E n \in 1..9 : WordLt(w, Pow2Word(7 * n))
    THEN CHOOSE n \in 1..9 : /\ WordLt(w, Pow2Word(7 * n))
                             /\ \A m \in 1..(n - 1) : ~WordLt(w, Pow2Word(7 * m))
    ELSE 10

-----------------------------------------------------------------------------
(* Codec runs: a program that marshals one value and unmarshals the bytes. *)

PtrTo(t, x) == Value(PointerTo(t), Ptr(1, x), FALSE)

\* The sequences over S of up to n elements.
SeqsUpTo(S, n) == UNION {[1..k -> S] : k \in 0..n}

\* The maps with up to MaxLen of the keys K and values out of V.
MapsOver(K, V) ==
    UNION {[S -> V] : S \in {T \in SUBSET K : Cardinality(T) <= MaxLen}}

\* Keys of a map[*int16]bool: two pointers to equal numbers and one to another.
PtrKeys == {Ptr(1, IntV(3)), Ptr(2, IntV(3)), Ptr(3, IntV(1))}

\* The values &v handed to Marshal.
CodecInputs ==
    {PtrTo(TBool, BoolV(b)) : b \in BOOLEAN}
    \cup {PtrTo(t, IntV(n)) : t \in {TInt8, TInt16, TInt32, TInt64, TInt}, n \in {-3, 0, 3}}
    \cup {PtrTo(t, IntV(n)) : t \in {TUint8, TUint16, TUint32, TUint64}, n \in {0, 200}}
    \cup {PtrTo(TString, StringV(b)) : b \in SeqsUpTo({97, 98}, MaxLen)}
    \cup {PtrTo(TSlice(TInt64), Slice(a)) : a \in SeqsUpTo({IntV(42), IntV(43)}, MaxLen)}
    \cup {PtrTo(TSlice(TUint8), Slice(a)) : a \in SeqsUpTo({IntV(42), IntV(43)}, MaxLen)}
    \cup {PtrTo(TSlice(TInt8), NilSlice), PtrTo(TSlice(TInt64), NilSlice)}
    \cup {PtrTo(TSlice(PointerTo(TInt16)), Slice(a))
            : a \in SeqsUpTo({Ptr(1, IntV(1)), Ptr(2, IntV(2)), NilPtr}, MaxLen)}
    \cup {PtrTo(TSlice(TSlice(TInt16)), Slice(a))
            : a \in SeqsUpTo({NilSlice, Slice(<<IntV(1), IntV(2)>>)}, MaxLen)}
    \cup {PtrTo(TArray(2, TInt64), ArrayV(<<IntV(42), IntV(43)>>)),
          PtrTo(TArray(2, TUint8), ArrayV(<<IntV(42), IntV(43)>>)),
          PtrTo(PointerTo(TInt16), Ptr(2, IntV(3))),
          PtrTo(PointerTo(TInt16), NilPtr),
          PtrTo(TMap(TInt16, TBool), NilMap)}
    \cup {PtrTo(TMap(TInt16, TBool), Map(m))
            : m \in MapsOver({IntV(-3), IntV(0), IntV(3)}, {BoolV(TRUE), BoolV(FALSE)})}
    \cup {PtrTo(TMap(PointerTo(TInt16), TBool), Map(m))
            : m \in MapsOver(PtrKeys, {BoolV(TRUE), BoolV(FALSE)})}

\* The types with a length ceiling: BCSOptions gives the ceiling of "Len2",
\* "Len3" and "Len4"; a type without a name has none.
Ceilings == {"", "Len2", "Len3", "Len4"}

\* 2^16 - 1, 2^16, 2^32 - 1 and 2^32 elements.
LongLens == {Pow2WordLess1(16), Pow2Word(16), Pow2WordLess1(32), Pow2Word(32)}

\* Collections for the length ceilings: the value &v handed to Marshal, the
\* collection coll in it that has the ceiling, and the bytes that are out
\* before the encoder comes to coll.
LenInput(t, x) == [kind |-> "len", v |-> PtrTo(t, x), coll |-> Value(t, x, TRUE), before |-> <<>>]

LenInputs ==
    {LenInput(TNamed(c, TSlice(TEmptyStruct)), LongSlice(n)) : c \in Ceilings, n \in LongLens}
    \cup {LenInput(TNamed(c, TSlice(TEmptyStruct)), Slice(a))
            : c \in Ceilings, a \in SeqsUpTo({StructV(<<>>)}, MaxLen)}
    \cup {LenInput(TNamed(c, TSlice(TUint8)), Slice(a))
            : c \in Ceilings, a \in SeqsUpTo({IntV(7)}, MaxLen)}
    \cup {LenInput(TNamed(c, TMap(TInt16, TBool)), Map(m))
            : c \in Ceilings, m \in MapsOver({IntV(0), IntV(3)}, {BoolV(TRUE)})}
    \cup {LenInput(TNamed("Len2", TMap(TInt16, TBool)), LongMap(n))
            : n \in {Pow2Word(16), Pow2Word(32)}}
    \cup {LenInput(TNamed(c, TMap(TInt16, TBool)), LongMap(Pow2Word(32)))
            : c \in {"Len3", "Len4"}}
    \cup {[kind |-> "len",
           v |-> PtrTo(TSlice(TNamed(c, TSlice(TEmptyStruct))),
                       Slice(<<Slice(<<StructV(<<>>)>>), LongSlice(n)>>)),
           coll |-> Value(TNamed(c, TSlice(TEmptyStruct)), LongSlice(n), TRUE),
           before |-> <<2, 1>>] : c \in Ceilings, n \in LongLens}

InitCodec ==
    /\ CustomEncoders = <<>>
    /\ EnumTypes = NoEnumTypes
    /\ encoderGlobalTypeInfoCache = EmptyCache
    /\ enc = NewEncoder(Buffer, 1)
    /\ call = [op |-> "NewEncoder"]
    /\ input \in {[kind |-> "value", v |-> v] : v \in CodecInputs} \cup LenInputs
    /\ output = NoOutput

\* MarshalStream(&v, dest); with a bytes.Buffer as dest it is Marshal(&v).
DoMarshal ==
    /\ output.kind = "none"
    /\ \E dest \in Dests, order \in MapOrders :
       \E e \in {MarshalStream(input.v, dest, order)} :
        /\ output' = [kind |-> "marshal", dest |-> dest, order |-> order,
                      written |-> e.w.buf, err |-> e.err]
        /\ encoderGlobalTypeInfoCache' =
              CacheSave(encoderGlobalTypeInfoCache, e.typeInfoCache)
    /\ call' = [op |-> "MarshalStream"]
    /\ UNCHANGED <<EnumTypes, CustomEncoders, enc, input>>

\* Unmarshal[V] of the bytes Marshal(&v) returned.
DoUnmarshal ==
    /\ input.kind = "value"
    /\ output.kind = "marshal"
    /\ output.dest = Buffer
    /\ output.err = NoErr
    /\ \E r \in {Unmarshal(input.v.t.elem, output.written)} :
        output' = [kind |-> "roundtrip", order |-> output.order,
                   written |-> output.written, x |-> r.x, err |-> r.err]
    /\ call' = [op |-> "Unmarshal"]
    /\ UNCHANGED <<EnumTypes, CustomEncoders, encoderGlobalTypeInfoCache, enc, input>>

NextCodec ==
    \/ DoMarshal
    \/ DoUnmarshal

SpecCodec == InitCodec /\ [][NextCodec]_vars

-----------------------------------------------------------------------------
(* Decoder runs: a program that unmarshals a byte string as a value of a   *)
(* given type and marshals what it got.                                    *)

\* The longest byte string drawn as an input.
MaxBytes == 3

\* The types byte strings are decoded as.
DecodeShapes ==
    {TBool, TInt16, TString, TSlice(TInt8), TSlice(TUint8), TSlice(TInt16), TSlice(TBool),
     TMap(TInt8, TBool), PointerTo(TInt8)}

\* Byte strings made of a few bytes with and without the high bit.
ByteStrings == SeqsUpTo({0, 1, 2, 128, 129}, MaxBytes)

\* The slices a length prefix is put in front of, and the numbers it claims:
\* 1, 2, 3, 4, 2^32 - 1, 10^11, 2^63 and 2^64 - 1.
FramedShapes == {TSlice(TUint8), TSlice(TInt16), TSlice(TBool)}
ClaimedLens ==
    {NatToWord(n) : n \in 1..4}
    \cup {Pow2WordLess1(32), <<0, 232, 118, 72, 23, 0, 0, 0>>, Pow2Word(63),
          [i \in 1..WordLen |-> 255]}

\* The bytes of one element of a slice of type t.
ElemSize(t) == IF t.elem.kind = "Int16" THEN 2 ELSE 1

DecodeInputs ==
    {[kind |-> "bytes", t |-> t, b |-> b] : t \in DecodeShapes, b \in ByteStrings}
    \cup {[kind |-> "framed", t |-> t, n |-> n, payload |-> payload,
           b |-> ULEB128(n) \o payload]
            : t \in FramedShapes, n \in ClaimedLens, payload \in SeqsUpTo({0, 1}, MaxBytes)}

InitDecode ==
    /\ CustomEncoders = <<>>
    /\ EnumTypes = NoEnumTypes
    /\ encoderGlobalTypeInfoCache = EmptyCache
    /\ enc = NewEncoder(Buffer, 1)
    /\ call = [op |-> "NewEncoder"]
    /\ input \in DecodeInputs
    /\ output = NoOutput

\* Unmarshal[T](b)
DoDecode ==
    /\ output.kind = "none"
    /\ \E r \in {Unmarshal(input.t, input.b)} :
        output' = [kind |-> "unmarshal", x |-> r.x, err |-> r.err]
    /\ call' = [op |-> "Unmarshal"]
    /\ UNCHANGED <<EnumTypes, CustomEncoders, encoderGlobalTypeInfoCache, enc, input>>

\* The Go value with the decoded content x: a decoded map as a Go map.
RECURSIVE FromDecoded(_, _)
FromDecoded(t, x) ==
    CASE t.kind = "Slice" -> Slice([i \in 1..Len(x.items) |-> FromDecoded(t.elem, x.items[i])])
      [] t.kind = "Array" -> ArrayV([i \in 1..Len(x.a) |-> FromDecoded(t.elem, x.a[i])])
      [] t.kind = "Map" ->
            Map([k \in {FromDecoded(t.key, p[1]) : p \in x} |->
                    FromDecoded(t.elem,
                        (CHOOSE p \in x : FromDecoded(t.key, p[1]) = k)[2])])
      [] t.kind = "Ptr" -> Ptr(0, FromDecoded(t.elem, x.elem))
      [] OTHER -> x

\* Marshal(&v) of the value v that Unmarshal returned.
DoMarshalDecoded ==
    /\ output.kind = "unmarshal"
    /\ output.err = NoErr
    /\ \E order \in MapOrders :
       \E e \in {MarshalStream(PtrTo(input.t, FromDecoded(input.t, output.x)), Buffer, order)} :
        /\ output' = [kind |-> "remarshal", bytes |-> MarshalResult(e).bytes, err |-> e.err]
        /\ encoderGlobalTypeInfoCache' =
              CacheSave(encoderGlobalTypeInfoCache, e.typeInfoCache)
    /\ call' = [op |-> "MarshalStream"]
    /\ UNCHANGED <<EnumTypes, CustomEncoders, enc, input>>

NextDecode ==
    \/ DoDecode
    \/ DoMarshalDecoded

SpecDecode == InitDecode /\ [][NextDecode]_vars

-----------------------------------------------------------------------------
(* Struct runs: structs with optional, skipped and unexported fields,      *)
(* struct-enums and interface values are marshalled with the enum registry *)
(* as the program's init functions left it.                                *)

Optional == FieldOptions(ZeroTypeOptions, TRUE, FALSE, FALSE, FALSE)
Skipped == FieldOptions(ZeroTypeOptions, FALSE, FALSE, TRUE, FALSE)
\* An exported field named name with the options its tag gives.
Tagged(name, type, opts) == StructField(name, type, TRUE, opts, opts # ZeroFieldOptions)

\* The interface Enum and the types with its methods: VarA and VarB, which
\* the program registers, VarC, which it does not, and bcs.None.
Enum == TInterface("Enum")
VarA == TNamed("VarA", TInt16)
VarB == TNamed("VarB", TString)
VarC == TNamed("VarC", TBool)
\* An interface that is never registered.
Plain == TInterface("Plain")

\* The values of the field A of the struct inputs, by type: nil and not.
FieldValues ==
    {<<PointerTo(TInt16), x>> : x \in {NilPtr, Ptr(1, IntV(3))}}
    \cup {<<PointerTo(PointerTo(TInt16)), x>> : x \in {NilPtr, Ptr(1, NilPtr)}}
    \cup {<<TSlice(TInt16), x>> : x \in {NilSlice, Slice(<<>>), Slice(<<IntV(3)>>)}}
    \cup {<<TMap(TInt16, TBool), x>>
            : x \in {NilMap, Map(<<>>), Map(IntV(3) :> BoolV(TRUE))}}
    \cup {<<Plain, x>> : x \in {NilIface, Iface(Value(VarA, IntV(3), FALSE))}}
    \cup {<<Enum, x>> : x \in {NilIface, Iface(Value(VarA, IntV(3), FALSE)),
                               Iface(Value(VarC, BoolV(TRUE), FALSE))}}
    \cup {<<TInt16, IntV(3)>>}

\* struct { A <type> `bcs:"<opts>"`; B int8 } with B = 7, and the same with
\* an unexported first field.
StructInputs ==
    {[kind |-> "struct",
      v |-> PtrTo(TStruct("S", <<Tagged("A", fv[1], opts), Tagged("B", TInt8, ZeroFieldOptions)>>),
                  StructV(<<fv[2], IntV(7)>>))]
        : fv \in FieldValues, opts \in {ZeroFieldOptions, Optional, Skipped}}
    \cup {[kind |-> "struct",
           v |-> PtrTo(TStruct("S", <<StructField("a", fv[1], FALSE, opts, opts # ZeroFieldOptions),
                                      Tagged("B", TInt8, ZeroFieldOptions)>>),
                       StructV(<<fv[2], IntV(7)>>))]
            : fv \in FieldValues, opts \in {ZeroFieldOptions, Optional}}

\* The slots of a struct-enum: nil or set.
Slots ==
    {<<PointerTo(TInt16), x>> : x \in {NilPtr, Ptr(1, IntV(3))}}
    \cup {<<TSlice(TInt16), x>> : x \in {NilSlice, Slice(<<IntV(3)>>)}}
    \cup {<<PointerTo(PointerTo(TInt16)), x>> : x \in {NilPtr, Ptr(1, NilPtr)}}

\* Struct-enums of up to three slots, and one with a field that cannot be nil.
StructEnumInputs ==
    {[kind |-> "structenum",
      v |-> PtrTo(TStruct("StructEnum",
                          [i \in 1..Len(ss) |-> Tagged("F", ss[i][1], ZeroFieldOptions)]),
                  StructV([i \in 1..Len(ss) |-> ss[i][2]]))]
        : ss \in UNION {[1..k -> Slots] : k \in 1..3}}
    \cup {[kind |-> "structenum",
           v |-> PtrTo(TStruct("StructEnumWithInt",
                               <<Tagged("F", s[1], ZeroFieldOptions),
                                 Tagged("N", TInt16, ZeroFieldOptions),
                                 Tagged("G", t[1], ZeroFieldOptions)>>),
                       StructV(<<s[2], IntV(0), t[2]>>))]
            : s \in Slots, t \in Slots}

\* Values of the interface types, handed to Marshal by pointer.
InterfaceInputs ==
    {[kind |-> "interface", v |-> PtrTo(t, x)]
        : t \in {Enum, Plain},
          x \in {NilIface, Iface(Value(VarA, IntV(3), FALSE)),
                 Iface(Value(VarB, StringV(<<97>>), FALSE)),
                 Iface(Value(VarC, BoolV(TRUE), FALSE))}}

\* What the program registers for Enum at startup, if anything.
StartupEnumTypes ==
    {NoEnumTypes} \cup {(Enum :> variants)
                          : variants \in {<<VarA, VarB>>, <<noneT, VarA, VarB>>,
                                          <<VarB, VarA, noneT>>}}

InitStruct ==
    /\ CustomEncoders = <<>>
    /\ EnumTypes \in StartupEnumTypes
    /\ encoderGlobalTypeInfoCache = EmptyCache
    /\ enc = NewEncoder(Buffer, 1)
    /\ call = [op |-> "NewEncoder"]
    /\ input \in StructInputs \cup StructEnumInputs \cup InterfaceInputs
    /\ output = NoOutput

\* e := NewEncoder(dest); e.EncodeOptional(v) for the first field of the
\* struct under test.
DoEncodeOptionalField ==
    /\ input.kind = "struct"
    /\ output.kind = "none"
    /\ \E dest \in Dests, order \in MapOrders :
       \E val \in {ValueOf(FieldOf(Elem(input.v), 1))} \ {NilValue} :
       \E e \in {EncodeOptional([NewEncoder(dest, 1) EXCEPT !.mapOrder = order], val)} :
        /\ output' = [kind |-> "optional", dest |-> dest, order |-> order, arg |-> val,
                      written |-> e.w.buf, err |-> e.err]
        /\ encoderGlobalTypeInfoCache' =
              IF val.t.kind \in {"Ptr", "Interface", "Map"} /\ ~val.x.isnil
              THEN CacheSave(encoderGlobalTypeInfoCache, e.typeInfoCache)
              ELSE encoderGlobalTypeInfoCache
    /\ call' = [op |-> "EncodeOptional"]
    /\ UNCHANGED <<EnumTypes, CustomEncoders, enc, input>>

NextStruct ==
    \/ DoMarshal
    \/ DoEncodeOptionalField

SpecStruct == InitStruct /\ [][NextStruct]_vars

-----------------------------------------------------------------------------
(* Values behind pointers and values with custom encoders, marshalled on   *)
(* their own, as slice elements and as map values.                         *)

\* The deepest chain of pointers to a value.
MaxDepth == 2

\* The type of a chain of k pointers to a t, and the chain to x itself; the
\* pointer number nilAt of the chain, counted from the value, is nil (0:
\* none is).
RECURSIVE PointerChain(_, _)
PointerChain(t, k) == IF k = 0 THEN t ELSE PointerTo(PointerChain(t, k - 1))
RECURSIVE ChainTo(_, _, _)
ChainTo(x, k, nilAt) ==
    IF k = 0 THEN x
    ELSE IF k = nilAt THEN NilPtr
    ELSE Ptr(k, ChainTo(x, k - 1, nilAt))

\* The value handed to Marshal: the chain itself, a slice of two of it, or
\* a map with it as the one value.
Placed(where, t, x) ==
    CASE where = "top" -> Value(t, x, FALSE)
      [] where = "elem" -> PtrTo(TSlice(t), Slice(<<x, x>>))
      [] where = "value" -> PtrTo(TMap(TInt8, t), Map(IntV(5) :> x))

\* The values at the end of the chains.
ChainBases ==
    {<<TInt16, IntV(3)>>, <<BasicWithCustomCodec, StringV(<<97>>)>>,
     <<BasicWithCustomPtrCodec, StringV(<<97>>)>>}

\* v is the value marshalled and direct the same without the pointers.  A
\* nil pointer to a type with a MarshalBCS method makes the method panic, so
\* only the chains to an int16 have a nil pointer in them.
CustomInputs ==
    {i \in {[kind |-> "custom", where |-> where, depth |-> k, nilAt |-> nilAt,
             base |-> b[1],
             v |-> Placed(where, PointerChain(b[1], k), ChainTo(b[2], k, nilAt)),
             direct |-> Placed(where, b[1], b[2])]
               : where \in {"top", "elem", "value"}, k \in 0..MaxDepth,
                 b \in ChainBases, nilAt \in 0..MaxDepth} :
        /\ i.nilAt <= i.depth
        /\ i.nilAt > 0 => i.base = TInt16}

\* The functions registered for int16 or for *int16 when the program starts.
NestedFuncs == {"Write123", "Fail", "EncodeNil", "EncodeInt32"}
CustomRegistries ==
    {<<>>} \cup {(t :> f) : t \in RegisteredTypes, f \in NestedFuncs}

InitCustom ==
    /\ CustomEncoders \in CustomRegistries
    /\ EnumTypes = NoEnumTypes
    /\ encoderGlobalTypeInfoCache = EmptyCache
    /\ enc = NewEncoder(Buffer, 1)
    /\ call = [op |-> "NewEncoder"]
    /\ input \in CustomInputs
    /\ output = NoOutput

NextCustom ==
    \/ DoMarshal

SpecCustom == InitCustom /\ [][NextCustom]_vars

-----------------------------------------------------------------------------
(* Fields and elements encoded as byte arrays, and map keys that fail.     *)

\* The options of a field marked as-byte-array, of one whose elements are,
\* and of one with both marks.
AsByteArray == FieldOptions(ZeroTypeOptions, FALSE, TRUE, FALSE, FALSE)
ElementsAsByteArray ==
    FieldOptions([ZeroTypeOptions EXCEPT !.ArrayElement = ArrayElemOptions(ZeroTypeOptions, TRUE)],
                 FALSE, FALSE, FALSE, FALSE)
BothAsByteArray ==
    FieldOptions([ZeroTypeOptions EXCEPT !.ArrayElement = ArrayElemOptions(ZeroTypeOptions, TRUE)],
                 FALSE, TRUE, FALSE, FALSE)

\* The values of the marked field: some that encode and some that do not.
ByteArrayValues ==
    {<<TInt16, IntV(3), opts>> : opts \in {AsByteArray}}
    \cup {<<TString, StringV(b), opts>> : b \in SeqsUpTo({97, 98}, MaxLen), opts \in {AsByteArray}}
    \cup {<<TSlice(PointerTo(TInt16)), Slice(a), opts>>
            : a \in SeqsUpTo({Ptr(1, IntV(3)), NilPtr}, MaxLen),
              opts \in {AsByteArray, ElementsAsByteArray, BothAsByteArray}}
    \cup {<<TSlice(TUint8), Slice(a), opts>>
            : a \in SeqsUpTo({IntV(42), IntV(200)}, MaxLen),
              opts \in {AsByteArray, ElementsAsByteArray, BothAsByteArray}}

\* struct S { Z int8; A <type> <marks>; B int8 }{9, <value>, 7}, and maps
\* with pointers as keys, one of them nil.
ByteArrayInputs ==
    {[kind |-> "bytearr",
      v |-> PtrTo(TStruct("S", <<Tagged("Z", TInt8, ZeroFieldOptions),
                                 Tagged("A", fv[1], fv[3]),
                                 Tagged("B", TInt8, ZeroFieldOptions)>>),
                  StructV(<<IntV(9), fv[2], IntV(7)>>))] : fv \in ByteArrayValues}
    \cup {[kind |-> "nilkey",
           v |-> PtrTo(TMap(PointerTo(TInt16), TBool), Map(m))]
            : m \in {mm \in MapsOver({Ptr(1, IntV(3)), NilPtr}, {BoolV(TRUE)}) :
                        NilPtr \in DOMAIN mm}}

\* The options of the elements of a byte slice or byte array: none, compact,
\* and encoded as a uint16.
ByteElementOptions ==
    {ZeroTypeOptions,
     [ZeroTypeOptions EXCEPT !.IsCompactInt = TRUE],
     [ZeroTypeOptions EXCEPT !.UnderlyingType = "Uint16"]}

\* struct S { Z int8; A []uint8 or [2]uint8 <element options>; B int8 },
\* handed to Encode by pointer (so that A is addressable) and by value.
RawByteInputs ==
    {[kind |-> "bytes",
      v |-> IF byPointer THEN PtrTo(st[1], st[2]) ELSE Value(st[1], st[2], FALSE)]
       : byPointer \in BOOLEAN,
         st \in {<<TStruct("S", <<Tagged("Z", TInt8, ZeroFieldOptions),
                                  Tagged("A", tx[1],
                                         FieldOptions([ZeroTypeOptions EXCEPT
                                                         !.ArrayElement = ArrayElemOptions(o, FALSE)],
                                                      FALSE, FALSE, FALSE, FALSE)),
                                  Tagged("B", TInt8, ZeroFieldOptions)>>),
                    StructV(<<IntV(9), tx[2], IntV(7)>>)>>
                  : o \in ByteElementOptions,
                    tx \in {<<TSlice(TUint8), Slice(a)>> : a \in SeqsUpTo({IntV(42), IntV(200)}, MaxLen)}
                            \cup {<<TArray(2, TUint8), ArrayV(a)>> : a \in [1..2 -> {IntV(42), IntV(200)}]}}}

InitByteArray ==
    /\ CustomEncoders = <<>>
    /\ EnumTypes = NoEnumTypes
    /\ encoderGlobalTypeInfoCache = EmptyCache
    /\ enc = NewEncoder(Buffer, 1)
    /\ call = [op |-> "NewEncoder"]
    /\ input \in ByteArrayInputs \cup RawByteInputs
    /\ output = NoOutput

NextByteArray ==
    \/ DoMarshal

SpecByteArray == InitByteArray /\ [][NextByteArray]_vars

-----------------------------------------------------------------------------
(* Encoders with configurations of their own on the shared cache.          *)

\* The names under which an Encoder looks the field tags up; "" is the
\* default name.
TagNames == {"", "bcs", "json"}

\* struct S { Z int8; A uint16 <tag under the name bcs>; B int8 }.
ConfigInputs ==
    {[kind |-> "config",
      v |-> PtrTo(TStruct("S", <<Tagged("Z", TInt8, ZeroFieldOptions),
                                 Tagged("A", TUint16, opts),
                                 Tagged("B", TInt8, ZeroFieldOptions)>>),
                  StructV(<<IntV(9), IntV(n), IntV(7)>>))]
       : n \in {3, 200},
         opts \in {ZeroFieldOptions,
                   FieldOptions([ZeroTypeOptions EXCEPT !.IsCompactInt = TRUE],
                                FALSE, FALSE, FALSE, FALSE),
                   FieldOptions([ZeroTypeOptions EXCEPT !.UnderlyingType = "Uint32"],
                                FALSE, FALSE, FALSE, FALSE),
                   FieldOptions(ZeroTypeOptions, FALSE, TRUE, FALSE, FALSE),
                   FieldOptions(ZeroTypeOptions, FALSE, FALSE, TRUE, FALSE)}}

InitConfig ==
    /\ CustomEncoders = <<>>
    /\ EnumTypes = NoEnumTypes
    /\ encoderGlobalTypeInfoCache = EmptyCache
    /\ enc = NewEncoder(Buffer, 1)
    /\ call = [op |-> "NewEncoder"]
    /\ input \in ConfigInputs
    /\ output = NoOutput

\* NewEncoderWithOpts(dest, EncoderConfig{TagName: tagName}).Encode(v).
DoEncodeWithOpts ==
    /\ enc.id <= MaxEncoders
    /\ \E tagName \in TagNames, dest \in Dests :
       \E made \in {NewEncoderWithOpts(dest, [EncoderConfig EXCEPT !.TagName = tagName], enc.id)} :
       \E e \in {Encode(made, input.v)} :
        /\ enc' = [e EXCEPT !.id = enc.id + 1]
        /\ encoderGlobalTypeInfoCache' =
              CacheSave(encoderGlobalTypeInfoCache, e.typeInfoCache)
        /\ call' = [op |-> "EncodeWithOpts", cfg |-> made.cfg, dest |-> dest]
    /\ UNCHANGED <<EnumTypes, CustomEncoders, input, output>>

NextConfig ==
    \/ DoEncodeWithOpts

SpecConfig == InitConfig /\ [][NextConfig]_vars

-----------------------------------------------------------------------------
(* Integer fields encoded as another integer kind.                         *)

\* The integer kinds of widths 8, 16, 32 and 64 and their types.
NumberKinds == {"Int8", "Int16", "Int32", "Int64", "Uint8", "Uint16", "Uint32", "Uint64"}
NumberType(k) == [kind |-> k, name |-> ""]

\* The values a field of kind k takes: the ends of the narrow ranges and
\* their neighbours.
NumberValues(k) ==
    CASE k = "Int8" -> {-128, -3, 0, 3, 127}
      [] k = "Uint8" -> {0, 3, 127, 128, 255}
      [] k = "Int16" -> {-32768, -129, -128, -3, 0, 127, 128, 255, 256, 32767}
      [] k = "Uint16" -> {0, 127, 128, 255, 256, 32767, 32768, 65535}
      [] k \in {"Int32", "Int64"} ->
            {-2147483647, -32769, -32768, -129, -128, -3, 0, 127, 128, 255, 256,
             32767, 32768, 65535, 65536, 2147483647}
      [] k \in {"Uint32", "Uint64"} ->
            {0, 127, 128, 255, 256, 32767, 32768, 65535, 65536, 2147483647}

\* The options of a field whose tag names the kind it is encoded as.
EncodedAs(k) ==
    FieldOptions([ZeroTypeOptions EXCEPT !.UnderlyingType = k], FALSE, FALSE, FALSE, FALSE)

\* struct N { A <declared kind> encoded as <underlying kind> }
NumberInputs ==
    {[kind |-> "number",
      v |-> PtrTo(TStruct("N", <<Tagged("A", NumberType(kn[1]), EncodedAs(under))>>),
                  StructV(<<IntV(kn[2])>>))]
        : kn \in UNION {{<<k, n>> : n \in NumberValues(k)} : k \in NumberKinds},
          under \in NumberKinds}

InitNumber ==
    /\ CustomEncoders = <<>>
    /\ EnumTypes = NoEnumTypes
    /\ encoderGlobalTypeInfoCache = EmptyCache
    /\ enc = NewEncoder(Buffer, 1)
    /\ call = [op |-> "NewEncoder"]
    /\ input \in NumberInputs
    /\ output = NoOutput

NextNumber ==
    \/ DoMarshal

SpecNumber == InitNumber /\ [][NextNumber]_vars

-----------------------------------------------------------------------------
(* The enum registry: RegisterEnumType calls, some of which panic.         *)

\* The most variants one call registers.
MaxVariants == 2

\* variantT.Implements(enumT): every type of the model has the methods of
\* Enum; VarA and bcs.None have those of Plain too.
Implements(variantT, enumT) ==
    \/ enumT = Enum /\ variantT \in {VarA, VarB, VarC, noneT}
    \/ enumT = Plain /\ variantT \in {VarA, noneT}

\* A RegisterEnumType that stores the variants whatever is registered.
RegisterEnumTypeAgain(enumTypes, enumT, variants) ==
    IF \/ enumT.kind # "Interface"
       \/ \E i \in 1..Len(variants) :
            variants[i].kind = "Interface" \/ ~Implements(variants[i], enumT)
    THEN [EnumTypes |-> enumTypes, panic |-> TRUE]
    ELSE [EnumTypes |-> (enumT :> variants) @@ enumTypes, panic |-> FALSE]

\* A RegisterEnumType that stores the variants that come before the first
\* one it turns away.
RegisterEnumTypeInPart(enumTypes, enumT, variants) ==
    IF enumT.kind # "Interface" \/ enumT \in DOMAIN enumTypes
    THEN [EnumTypes |-> enumTypes, panic |-> TRUE]
    ELSE IF \E i \in 1..Len(variants) :
               variants[i].kind = "Interface" \/ ~Implements(variants[i], enumT)
    THEN [EnumTypes |->
            (enumT :> SubSeq(variants, 1,
                        (CHOOSE i \in 1..Len(variants) :
                            /\ variants[i].kind = "Interface" \/ ~Implements(variants[i], enumT)
                            /\ \A j \in 1..(i - 1) :
                                  variants[j].kind # "Interface" /\ Implements(variants[j], enumT))
                        - 1)) @@ enumTypes,
          panic |-> TRUE]
    ELSE [EnumTypes |-> (enumT :> variants) @@ enumTypes, panic |-> FALSE]

\* RegisterEnumType[EnumType](variant, variants...): the registry after the
\* call and whether the call panicked.
RegisterEnumType(enumTypes, enumT, variants) ==
    IF enumT.kind # "Interface"
    THEN [EnumTypes |-> enumTypes, panic |-> TRUE]
    ELSE IF \E i \in 1..Len(variants) :
               variants[i].kind = "Interface" \/ ~Implements(variants[i], enumT)
    THEN [EnumTypes |-> enumTypes, panic |-> TRUE]
    ELSE IF enumT \in DOMAIN enumTypes
    THEN [EnumTypes |-> enumTypes, panic |-> TRUE]
    ELSE [EnumTypes |-> (enumT :> variants) @@ enumTypes, panic |-> FALSE]

\* The types calls name as the enum, and the variants they list.
EnumTypeArgs == {Enum, Plain, VarA}
VariantLists == UNION {[1..k -> {VarA, VarB, Enum}] : k \in 1..MaxVariants}

InitEnum ==
    /\ CustomEncoders = <<>>
    /\ EnumTypes = NoEnumTypes
    /\ encoderGlobalTypeInfoCache = EmptyCache
    /\ enc = NewEncoder(Buffer, 1)
    /\ call = [op |-> "init"]
    /\ input = NoInput
    /\ output = NoOutput

\* A call of RegisterEnumType; the caller recovers from a panic.
DoRegisterEnumType ==
    /\ \E enumT \in EnumTypeArgs, variants \in VariantLists :
       \E r \in {RegisterEnumType(EnumTypes, enumT, variants)} :
        /\ EnumTypes' = r.EnumTypes
        /\ call' = [op |-> "RegisterEnumType", enumT |-> enumT, variants |-> variants,
                    panic |-> r.panic]
    /\ UNCHANGED <<CustomEncoders, encoderGlobalTypeInfoCache, enc, input, output>>

NextEnum ==
    \/ DoRegisterEnumType

SpecEnum == InitEnum /\ [][NextEnum]_vars

-----------------------------------------------------------------------------
(* Decoder.ReadN step by step: the buffer it holds while it reads n bytes  *)
(* from a source.  The buffer starts at no more than maxReadNBufferSize    *)
(* bytes and grows by as much each time it is full; the source hands over  *)
(* any number of the bytes that fit, so a read may come in pieces.         *)

\* The buffer ceiling, scaled down from the order of 64 KiB.
maxReadNBufferSize == 2

\* The sources hold up to three ceilings of bytes, as in TestReadN:
\* b[i] = byte(i) + 1.
ReadNSources == {[i \in 1..d |-> i] : d \in 0..(3 * maxReadNBufferSize)}

\* The numbers of bytes asked for: 0 to one more than the longest source,
\* and 1000 GB.
ramSize1000GB == <<0, 0, 0, 0, 250, 0, 0, 0>>
ReadNCounts == {NatToWord(n) : n \in 0..(3 * maxReadNBufferSize + 1)} \cup {ramSize1000GB}

\* min(n, k) of a uint64 n and a small k.
MinWord(n, k) == IF WordLt(n, NatToWord(k)) THEN WordToNat(n) ELSE k

\* A buffer sized by n, whatever n is (up to 2^30).
ReadNAllocAll(n, size) == MinWord(n, Pow2(30))

\* The size of the buffer after it is enlarged (size = 0: when it is made).
ReadNAlloc(n, size) == MinWord(n, size + maxReadNBufferSize)

\* Bytes read are put in front of those already held.
ReadNTakeFront(buf, chunk) == chunk \o buf

\* Bytes read go behind those already held.
ReadNTake(buf, chunk) == buf \o chunk

InitReadN ==
    /\ CustomEncoders = <<>>
    /\ EnumTypes = NoEnumTypes
    /\ encoderGlobalTypeInfoCache = EmptyCache
    /\ enc = NewEncoder(Buffer, 1)
    /\ call = [op |-> "NewDecoder"]
    /\ input \in {[kind |-> "ReadN", b |-> b, n |-> n] : b \in ReadNSources, n \in ReadNCounts}
    /\ output = NoOutput

\* d.ReadN(n) makes its buffer.
DoReadNBegin ==
    /\ call.op = "NewDecoder"
    /\ call' = [op |-> "ReadN", pc |-> "read", src |-> input.b, buf |-> <<>>,
                size |-> ReadNAlloc(input.n, 0)]
    /\ UNCHANGED <<CustomEncoders, EnumTypes, encoderGlobalTypeInfoCache, enc, input, output>>

\* The buffer is full and more bytes are wanted: it is enlarged.
DoReadNGrow ==
    /\ call.op = "ReadN" /\ call.pc = "read"
    /\ NatToWord(Len(call.buf)) # input.n
    /\ Len(call.buf) = call.size
    /\ call' = [call EXCEPT !.size = ReadNAlloc(input.n, call.size)]
    /\ UNCHANGED <<CustomEncoders, EnumTypes, encoderGlobalTypeInfoCache, enc, input, output>>

\* The source hands over k of the bytes that fit in the buffer.
DoReadNRead ==
    /\ call.op = "ReadN" /\ call.pc = "read"
    /\ Len(call.buf) < call.size
    /\ call.src # <<>>
    /\ \E k \in 1..call.size - Len(call.buf) :
        /\ k <= Len(call.src)
        /\ call' = [call EXCEPT !.buf = ReadNTake(call.buf, SubSeq(call.src, 1, k)),
                                !.src = SubSeq(call.src, k + 1, Len(call.src))]
    /\ UNCHANGED <<CustomEncoders, EnumTypes, encoderGlobalTypeInfoCache, enc, input, output>>

\* ReadN returns: the n bytes, or the end of the input.
DoReadNEnd ==
    /\ call.op = "ReadN" /\ call.pc = "read"
    /\ \/ /\ NatToWord(Len(call.buf)) = input.n
          /\ output' = [kind |-> "ReadN", x |-> call.buf, err |-> NoErr]
       \/ /\ NatToWord(Len(call.buf)) # input.n
          /\ Len(call.buf) < call.size
          /\ call.src = <<>>
          /\ output' = [kind |-> "ReadN", x |-> None,
                        err |-> Errorf("reading bytes: %w", <<"io.EOF">>)]
    /\ call' = [call EXCEPT !.pc = "done"]
    /\ UNCHANGED <<CustomEncoders, EnumTypes, encoderGlobalTypeInfoCache, enc, input>>

NextReadN ==
    \/ DoReadNBegin
    \/ DoReadNGrow
    \/ DoReadNRead
    \/ DoReadNEnd

SpecReadN == InitReadN /\ [][NextReadN]_vars

-----------------------------------------------------------------------------
(* Properties.                                                             *)

\* C1: a value that Marshal encodes comes back from Unmarshal: decoding
\* the bytes succeeds and gives a value equal to the one marshalled (a nil
\* and an empty slice being equal).
RoundTrip ==
    output.kind = "roundtrip" =>
        /\ output.err = NoErr
        /\ output.x = Comparable(input.v.t.elem, input.v.x.elem)

\* Marshal(&v) under the map iteration order `order`.
MarshalUnder(v, order) == MarshalResult(MarshalStream(v, Buffer, order))

\* C2: the bytes Marshal returns for a value do not depend on the order in
\* which the runtime enumerates the entries of a map.
MarshalIsOrderIndependent ==
    (output.kind = "marshal" /\ output.dest = Buffer) =>
        \A order \in MapOrders :
            MarshalUnder(input.v, order) = MarshalUnder(input.v, output.order)

\* The bytes of the key k and of the value under k of the map value mv, each
\* marshalled on its own.
KeyBytes(mv, k) == MarshalUnder(PtrTo(mv.t.key, k), <<1, 2>>).bytes
ValueBytes(mv, k) == MarshalUnder(PtrTo(mv.t.elem, mv.x.m[k]), <<1, 2>>).bytes

\* The ways to line up the keys of a map.
Arrangements(m) ==
    {a \in [1..Cardinality(DOMAIN m) -> DOMAIN m] :
        \A i, j \in DOMAIN a : a[i] = a[j] => i = j}

\* The pairs of the map mv laid out in the order a of its keys.
RECURSIVE PairsFrom(_, _, _)
PairsFrom(mv, a, i) ==
    IF i > Len(a) THEN <<>>
    ELSE KeyBytes(mv, a[i]) \o ValueBytes(mv, a[i]) \o PairsFrom(mv, a, i + 1)

\* C3: a map that is encoded is its ULEB128 entry count and then its (key
\* bytes, value bytes) pairs, the key bytes ascending in bytes.Compare order.
MapIsSortedByKeyBytes ==
    (/\ output.kind = "marshal"
     /\ input.kind = "value"
     /\ input.v.t.elem.kind = "Map"
     /\ output.err = NoErr) =>
        \E a \in Arrangements(input.v.x.elem.m) :
            /\ output.written =
                  ULEB128(NatToWord(Len(a))) \o PairsFrom(Elem(input.v), a, 1)
            /\ \A i, j \in 1..Len(a) :
                  i < j => ~BytesLess(KeyBytes(Elem(input.v), a[j]),
                                      KeyBytes(Elem(input.v), a[i]))

\* map[int16]bool{-3: true, 3: true} has been encoded, enumerated with -3
\* first: the key 3 (03 00) is out before the key -3 (FD FF).
MapIsSortedByKeyBytesWitness ==
    /\ output.kind = "marshal"
    /\ input.kind = "value"
    /\ input.v.t.elem = TMap(TInt16, TBool)
    /\ DOMAIN input.v.x.elem.m = {IntV(-3), IntV(3)}
    /\ MapRange([mapOrder |-> output.order], Elem(input.v))[1] = IntV(-3)
    /\ output.err = NoErr
    /\ SubSeq(output.written, 1, 3) = <<2, 3, 0>>
    /\ SubSeq(output.written, 5, 6) = <<253, 255>>

\* C4: a byte string that Unmarshal takes for a type is the byte string
\* Marshal returns for the value it decoded to.
DecodedBytesAreCanonical ==
    output.kind = "remarshal" =>
        /\ output.err = NoErr
        /\ output.bytes = input.b

\* C5: once an Encoder's stored error is non-nil, a call of Encode,
\* EncodeOptional, Write or a Write* primitive on that Encoder writes nothing
\* to the sink: the sink's bytes and its remaining room stay as they were.
StickyErrorWritesNothing ==
    [][(enc.err # NoErr /\ enc'.id = enc.id) => enc'.w = enc.w]_vars

\* An Encode has been called on an Encoder that a Write primitive had left
\* failed after part of the bytes went out.
StickyErrorWritesNothingWitness ==
    /\ call.op = "Encode"
    /\ call.arg # NilValue
    /\ enc.err = <<"io.ErrShortWrite">>
    /\ enc.w.buf # <<>>

\* C6: the failed state is absorbing: the stored error of an Encoder never
\* goes back to nil, and no further Encode, EncodeOptional or Write* call
\* changes the error Err() returns.
FailedIsAbsorbing ==
    [][(enc.err # NoErr /\ enc'.id = enc.id) => enc'.err = enc.err]_vars

\* A call was made on an Encoder whose earlier top-level Encode had failed.
FailedIsAbsorbingWitness ==
    /\ enc.calls = MaxCalls
    /\ call.op \in {"EncodeOptional", "WriteBool", "WriteLen"}
    /\ enc.err = <<"cannot encode a nil value">>

\* What MarshalStream returns when the shared cache holds nothing.
MarshalFresh(val, dest) ==
    Encode([NewEncoder(dest, 0) EXCEPT !.typeInfoCache = EmptyCache], val)

\* C7: the bytes and the error of a Marshal / MarshalStream call are those of
\* the same call made with nothing in the shared type-info cache, whatever
\* earlier calls left there.
MarshalIgnoresEarlierCalls ==
    call.op = "MarshalStream" =>
        /\ call.written = MarshalFresh(call.arg, call.dest).w.buf
        /\ call.err = MarshalFresh(call.arg, call.dest).err

\* C8: WriteCompactUint64, WriteLen and WriteEnumIdx write the reference
\* minimal ULEB128 encoding of their argument, of the length the table of
\* thresholds gives, and with a last byte that is zero only for the value 0.
CompactIsMinimalULEB128 ==
    output.kind = "compact" =>
        /\ output.bytes = ULEB128(output.v)
        /\ Len(output.bytes) = ULEB128Len(output.v)
        /\ (output.bytes[Len(output.bytes)] = 0 => output.v = ZeroWord)
        /\ \A i \in 1..Len(output.bytes) :
              (output.bytes[i] >= 128) = (i < Len(output.bytes))

\* 2^63 has been written with WriteCompactUint64: ten bytes ending in 1.
CompactIsMinimalULEB128Witness ==
    /\ call.op = "WriteCompactUint64"
    /\ output.kind = "compact"
    /\ output.v = Pow2Word(63)
    /\ Len(output.bytes) = 10
    /\ output.bytes[10] = 1

\* The ceiling the type of a collection sets for its length: 0 for none.
CeilingOf(t) == IF ImplementsBCSType(t) THEN BCSOptions(t).LenSizeInBytes ELSE 0

\* The collection is longer than its ceiling allows, or the ceiling is none of
\* 0, 2 and 4 bytes.
OverCeiling(coll) ==
    \/ CeilingOf(coll.t) = 2 /\ ~WordLt(LenOf(coll), Pow2Word(16))
    \/ CeilingOf(coll.t) = 4 /\ ~WordLt(LenOf(coll), Pow2Word(32))
    \/ CeilingOf(coll.t) \notin {0, 2, 4}

\* b is the first bytes of c.
IsPrefix(b, c) == Len(b) <= Len(c) /\ SubSeq(c, 1, Len(b)) = b

\* C9: encoding a slice or map that is longer than its 2-byte or 4-byte
\* ceiling, or whose ceiling is none of 0, 2 and 4 bytes, fails with neither
\* the length prefix nor an element of it written; so a collection that is
\* encoded keeps to its ceiling, and its length prefix is its length.
LenCeilingEnforced ==
    (output.kind = "marshal" /\ input.kind = "len") =>
        /\ OverCeiling(input.coll) =>
              /\ output.err # NoErr
              /\ IsPrefix(output.written, input.before)
        /\ output.err = NoErr =>
              /\ ~OverCeiling(input.coll)
              /\ IsPrefix(input.before \o ULEB128(LenOf(input.coll)), output.written)

\* A slice of 2^16 elements under a 2-byte ceiling, the second element of an
\* outer slice, has been turned down after the bytes before it went out.
LenCeilingEnforcedWitness ==
    /\ output.kind = "marshal"
    /\ input.kind = "len"
    /\ input.coll.t.name = "Len2"
    /\ LenOf(input.coll) = Pow2Word(16)
    /\ input.before = <<2, 1>>
    /\ output.written = <<2, 1>>
    /\ output.err # NoErr

\* The length prefix of a framed input claims more elements than its payload
\* holds.
ClaimsTooMany(in) ==
    WordLt(NatToWord(Len(in.payload) \div ElemSize(in.t)), in.n)

\* C10: decoding a slice whose length prefix claims more elements than the
\* input supplies fails with an error that wraps io.EOF, however large the
\* claimed length.
ShortInputIsEOF ==
    (output.kind = "unmarshal" /\ input.kind = "framed" /\ ClaimsTooMany(input)) =>
        IsEOF(output.err)

\* A []byte whose prefix claims 10^11 bytes and whose payload holds three
\* has been decoded.
ShortInputIsEOFWitness ==
    /\ output.kind = "unmarshal"
    /\ input.kind = "framed"
    /\ input.t = TSlice(TUint8)
    /\ input.n = <<0, 232, 118, 72, 23, 0, 0, 0>>
    /\ Len(input.payload) = 3
    /\ IsEOF(output.err)


\* C11: while ReadN(n) runs, the buffer it holds is never larger than the
\* bytes already read plus maxReadNBufferSize, whatever n is; before any
\* byte is read it is at most maxReadNBufferSize.
ReadNBufferIsBounded ==
    call.op = "ReadN" =>
        /\ call.size <= Len(call.buf) + maxReadNBufferSize
        /\ Len(call.buf) <= call.size

ReadNBufferIsBoundedWitness ==
    /\ call.op = "ReadN"
    /\ input.n = ramSize1000GB
    /\ Len(call.buf) = 3 * maxReadNBufferSize
    /\ call.size = 3 * maxReadNBufferSize

\* C12: ReadN(n) on a source of d bytes returns the first n bytes of the
\* source in order when n <= d, and an error wrapping io.EOF when n > d.
ReadNReturnsFirstBytes ==
    output.kind = "ReadN" =>
        IF WordLt(NatToWord(Len(input.b)), input.n)
        THEN IsEOF(output.err)
        ELSE /\ output.err = NoErr
             /\ output.x = SubSeq(input.b, 1, WordToNat(input.n))
             /\ output.x = ReadN(input.b, input.n).x

ReadNReturnsFirstBytesWitness ==
    /\ output.kind = "ReadN"
    /\ output.err = NoErr
    /\ Len(input.b) = 3 * maxReadNBufferSize
    /\ Len(output.x) = 2 * maxReadNBufferSize + 1


\* The first field of the struct under test, its value, and whether the
\* encoder comes to the value at all.
FieldA == Elem(input.v).t.fields[1]
FieldAValue == FieldOf(Elem(input.v), 1)
FieldAIsNil == FieldA.Type.kind \in NullableKinds /\ FieldAValue.x.isnil
FieldAIsSerialized == FieldA.IsExported /\ ~FieldA.opts.Skip

\* The bytes of the value of the first field encoded on its own.
FieldAPayload == MarshalUnder(PtrTo(FieldA.Type, FieldAValue.x), output.order)

OptionalFraming ==
    /\ (/\ output.kind = "marshal" /\ input.kind = "struct"
        /\ output.dest = Buffer /\ output.err = NoErr
        /\ FieldAIsSerialized /\ FieldA.opts.Optional)
           => output.written =
                 (IF FieldAIsNil THEN <<0>> ELSE <<1>> \o FieldAPayload.bytes) \o <<7>>
    /\ (output.kind = "optional" /\ output.dest = Buffer /\ output.arg.t.kind \in {"Ptr", "Map"})
           => IF output.arg.x.isnil THEN output.err = NoErr /\ output.written = <<0>>
              ELSE /\ output.written # <<>> /\ output.written[1] = 1
                   /\ output.err = NoErr =>
                          output.written =
                             <<1>> \o MarshalUnder(PtrTo(output.arg.t, output.arg.x),
                                                   output.order).bytes


\* The struct-enum under test: the fields that are set, and whether every
\* field is of a kind that can be nil.
EnumStruct == Elem(input.v)
SetFields ==
    {i \in 1..Len(EnumStruct.t.fields) :
        /\ EnumStruct.t.fields[i].Type.kind \in NullableKinds
        /\ ~EnumStruct.x.f[i].isnil}
AllFieldsNullable ==
    \A i \in 1..Len(EnumStruct.t.fields) : EnumStruct.t.fields[i].Type.kind \in NullableKinds
TheSetField == CHOOSE i \in SetFields : TRUE
\* The value of the set field encoded on its own.
SetFieldPayload ==
    MarshalUnder(PtrTo(EnumStruct.t.fields[TheSetField].Type, EnumStruct.x.f[TheSetField]),
                 output.order)

\* C15 as stated: a struct-enum is encoded successfully exactly when one of
\* its fields is set (and none is of a type that cannot be nil).
StructEnumSucceedsIffOneSet ==
    (output.kind = "marshal" /\ input.kind = "structenum" /\ output.dest = Buffer)
        => (output.err = NoErr <=> (Cardinality(SetFields) = 1 /\ AllFieldsNullable))

\* C15: a struct-enum with exactly one field set, all fields being of
\* nullable type, is encoded as the ordinal of that field in ULEB128 and
\* then the field's payload, and the encode succeeds exactly when the
\* payload's does; with no field set, with two or more, or with a field of
\* non-nullable type the encode fails and nothing is written.
StructEnumLayout ==
    (output.kind = "marshal" /\ input.kind = "structenum")
        => IF Cardinality(SetFields) = 1 /\ AllFieldsNullable
           THEN output.dest = Buffer =>
                  /\ output.written # <<>> /\ output.written[1] = TheSetField - 1
                  /\ output.err = NoErr <=> SetFieldPayload.err = NoErr
                  /\ output.err = NoErr =>
                        output.written = <<TheSetField - 1>> \o SetFieldPayload.bytes
           ELSE output.err # NoErr /\ output.written = <<>>

StructEnumLayoutWitness ==
    /\ output.kind = "marshal" /\ input.kind = "structenum"
    /\ Len(EnumStruct.t.fields) = 3
    /\ SetFields = {3}
    /\ output.err = NoErr
    /\ output.written = <<2, 3, 0>>

\* The interface value under test and the variants registered for its type.
EnumValue == Elem(input.v)
Variants == EnumTypes[EnumValue.t]
PositionsOf(t) == {i \in 1..Len(Variants) : Variants[i] = t}

\* C16: a value of an interface registered as an enum is encoded as the
\* position of its concrete type in the variant list, in ULEB128, and then
\* its payload; a nil value is the position of None alone when None is
\* registered; a nil value without None and a type that is not in the list
\* are errors, and nothing is written.
InterfaceEnumLayout ==
    (/\ output.kind = "marshal" /\ input.kind = "interface"
     /\ EnumValue.t \in DOMAIN EnumTypes)
        => LET valT == IF EnumValue.x.isnil THEN noneT ELSE EnumValue.x.dyn.t
           IN  IF PositionsOf(valT) = {}
               THEN output.err # NoErr /\ output.written = <<>>
               ELSE output.dest = Buffer =>
                      /\ output.err = NoErr
                      /\ \E i \in PositionsOf(valT) :
                            output.written =
                               <<i - 1>> \o (IF EnumValue.x.isnil THEN <<>>
                                             ELSE MarshalUnder(PtrTo(valT, EnumValue.x.dyn.x),
                                                               output.order).bytes)

InterfaceEnumLayoutWitness ==
    /\ output.kind = "marshal" /\ input.kind = "interface"
    /\ EnumTypes = (Enum :> <<VarB, VarA, noneT>>)
    /\ EnumValue.t = Enum
    /\ ~EnumValue.x.isnil /\ EnumValue.x.dyn.t = VarA
    /\ output.written = <<1, 3, 0>>


\* C17: a RegisterEnumType call for an interface that has an entry panics,
\* and the list stored for an interface is the one its first successful
\* registration gave, in the order given: a call that does not panic stores
\* its list, and no call changes a list that is stored.
EnumRegistryIsWriteOnce ==
    [][call'.op = "RegisterEnumType" =>
        /\ call'.enumT \in DOMAIN EnumTypes => call'.panic
        /\ ~call'.panic => EnumTypes'[call'.enumT] = call'.variants
        /\ \A t \in DOMAIN EnumTypes :
              t \in DOMAIN EnumTypes' /\ EnumTypes'[t] = EnumTypes[t]]_vars

EnumRegistryIsWriteOnceWitness ==
    /\ call.op = "RegisterEnumType"
    /\ call.enumT = Enum /\ call.variants = <<VarB, VarA>> /\ call.panic
    /\ EnumTypes = (Enum :> <<VarA, VarB>>)

\* C18: RegisterEnumType panics when the enum type is not an interface and
\* when a variant does not implement it, and a call that panics leaves the
\* registry as it was, whatever variants came before the one turned away;
\* the entries of other interfaces are never touched.
RejectedRegistrationIsAtomic ==
    [][call'.op = "RegisterEnumType" =>
        /\ (\/ call'.enumT.kind # "Interface"
            \/ \E i \in 1..Len(call'.variants) : ~Implements(call'.variants[i], call'.enumT))
              => call'.panic
        /\ call'.panic => EnumTypes' = EnumTypes
        /\ \A t \in DOMAIN EnumTypes \cup DOMAIN EnumTypes' :
              t # call'.enumT =>
                 /\ t \in DOMAIN EnumTypes /\ t \in DOMAIN EnumTypes'
                 /\ EnumTypes'[t] = EnumTypes[t]]_vars

RejectedRegistrationIsAtomicWitness ==
    /\ call.op = "RegisterEnumType"
    /\ call.enumT = Plain /\ call.variants = <<VarA, VarB>> /\ call.panic
    /\ EnumTypes = (Enum :> <<VarA>>)


\* Whether the number n is in the range of the integer kind k; every number
\* of the model is in the range of the kinds of 32 and 64 bits but for the
\* sign.
InRangeOf(n, k) ==
    CASE k = "Int8" -> -128 <= n /\ n <= 127
      [] k = "Int16" -> -32768 <= n /\ n <= 32767
      [] k \in {"Int32", "Int64"} -> TRUE
      [] k = "Uint8" -> 0 <= n /\ n <= 255
      [] k = "Uint16" -> 0 <= n /\ n <= 65535
      [] k \in {"Uint32", "Uint64"} -> 0 <= n

UnderlyingKind == FieldA.opts.TypeOptions.UnderlyingType

\* C19: an integer field with an underlying kind is encoded in the width of
\* that kind when its value is in the range of the kind, and otherwise the
\* encode fails and writes nothing, for every pair of declared and
\* underlying kind of widths 8 to 64, signed and unsigned.
UnderlyingKindRangeChecked ==
    (output.kind = "marshal" /\ input.kind = "number" /\ output.dest = Buffer) =>
        IF InRangeOf(FieldAValue.x.n, UnderlyingKind)
        THEN /\ output.err = NoErr
             /\ output.written =
                   SubSeq(IntToWord(FieldAValue.x.n), 1, KindBytes(UnderlyingKind))
        ELSE output.err # NoErr /\ output.written = <<>>


\* The encodings of the elements i, i + 1, ... of the array v, one after
\* the other.
RECURSIVE ElementsBackToBack(_, _, _)
ElementsBackToBack(v, i, order) ==
    IF i > Len(v.x.a) THEN <<>>
    ELSE MarshalUnder(PtrTo(v.t.elem, v.x.a[i]), order).bytes
            \o ElementsBackToBack(v, i + 1, order)

\* C20: a slice without elements, nil or not, a map that is not nil and has
\* no entries, and the empty string are each encoded as the one byte 0x00;
\* an array is encoded as its elements one after the other with no length
\* before them.
EmptyIsOneZeroByte ==
    (output.kind = "marshal" /\ input.kind = "value" /\ output.dest = Buffer) =>
        /\ (\/ /\ Elem(input.v).t.kind = "Slice"
                /\ Elem(input.v).x.items = <<>> /\ Elem(input.v).x.more = ZeroWord
            \/ /\ Elem(input.v).t.kind = "Map"
                /\ ~Elem(input.v).x.isnil
                /\ DOMAIN Elem(input.v).x.m = {} /\ Elem(input.v).x.more = ZeroWord
            \/ /\ Elem(input.v).t.kind = "String"
                /\ Elem(input.v).x.s = <<>>)
              => output.err = NoErr /\ output.written = <<0>>
        /\ Elem(input.v).t.kind = "Array"
              => /\ output.err = NoErr
                 /\ output.written = ElementsBackToBack(Elem(input.v), 1, output.order)
                 /\ Len(output.written) =
                       Elem(input.v).t.len * KindBytes(Elem(input.v).t.elem.kind)

EmptyIsOneZeroByteWitness ==
    /\ output.kind = "marshal" /\ output.dest = Buffer
    /\ input.kind = "value"
    /\ input.v = PtrTo(TSlice(TInt64), NilSlice)
    /\ output.written = <<0>>


\* What a sink takes of the bytes b written to it piece by piece.
Fit(b, dest) ==
    IF dest.room = -1 \/ Len(b) <= dest.room THEN b ELSE SubSeq(b, 1, dest.room)

\* The bytes written before the encoder comes to the first value with a
\* custom encoder: the length of the slice, or that of the map and the key.
BeforeCustom ==
    CASE input.where = "top" -> <<>>
      [] input.where = "elem" -> <<2>>
      [] input.where = "value" -> <<1, 5>>

\* The function registered for int16 or *int16, if one is and the value is
\* an int16.
CustomFunc ==
    IF input.base = TInt16 /\ CustomEncoders # <<>>
    THEN CustomEncoders[CHOOSE t \in DOMAIN CustomEncoders : TRUE]
    ELSE "none"

\* The same Marshal call with a bytes.Buffer as the sink.
OnBuffer == MarshalStream(input.v, Buffer, output.order)

\* C21: when a custom encoder calls Encode, that call fails and the custom
\* encoder returns nil, the Marshal call returns an error and the sink holds
\* what it held at the failure: a function that writes 1, encodes nil and
\* writes 9 leaves the 1 and no 9; a MarshalBCS or function whose nested
\* Encode runs into the end of the sink leaves the bytes that fitted.
NestedFailureIsNotSwallowed ==
    (output.kind = "marshal" /\ input.kind = "custom" /\ input.nilAt = 0) =>
        /\ CustomFunc = "EncodeNil" =>
              /\ output.err # NoErr
              /\ output.written = Fit(BeforeCustom \o <<1>>, output.dest)
        /\ (/\ CustomFunc = "EncodeInt32" \/ input.base # TInt16
            /\ output.dest # Buffer
            /\ Len(OnBuffer.w.buf) > output.dest.room) =>
              /\ OnBuffer.err = NoErr
              /\ output.err # NoErr
              /\ output.written = Fit(OnBuffer.w.buf, output.dest)

NestedFailureIsNotSwallowedWitness ==
    /\ output.kind = "marshal" /\ input.kind = "custom"
    /\ input.where = "elem" /\ input.depth = 1 /\ input.nilAt = 0
    /\ CustomEncoders = (TInt16 :> "EncodeNil")
    /\ output.dest = Buffer
    /\ output.written = <<2, 1>>
    /\ output.err # NoErr

\* The Marshal call on the value without the pointers, into the same sink.
Direct == MarshalStream(input.direct, output.dest, output.order)

\* C22: a chain of pointers, none of them nil, to a value is encoded as the
\* value is, on its own, as a slice element and as a map value, with and
\* without a custom encoder for the value's type or for the type of the
\* pointer to it; a nil pointer in the layers the encoder takes off is an
\* error (the innermost pointer is not taken off when its type has a
\* custom encoder, which is then handed the nil pointer).
PointersAreTransparent ==
    (output.kind = "marshal" /\ input.kind = "custom") =>
        /\ input.nilAt = 0 =>
              /\ output.written = Direct.w.buf
              /\ output.err = NoErr <=> Direct.err = NoErr
        /\ (input.nilAt > 0
              /\ ~(input.nilAt = 1 /\ PointerTo(TInt16) \in DOMAIN CustomEncoders)) =>
              /\ output.err # NoErr
              /\ output.written = Fit(IF input.where = "top" THEN <<>>
                                      ELSE IF input.where = "elem" THEN <<2>> ELSE <<1, 5>>,
                                      output.dest)

PointersAreTransparentWitness ==
    /\ output.kind = "marshal" /\ input.kind = "custom"
    /\ input.where = "elem" /\ input.depth = 2 /\ input.nilAt = 0
    /\ input.base = TInt16
    /\ CustomEncoders = (PointerTo(TInt16) :> "EncodeInt32")
    /\ output.err = NoErr
    /\ output.written = <<2, 3, 0, 0, 0, 3, 0, 0, 0>>


\* The custom encoder function the registry holds for a *int16 value: that
\* of *int16 if there is one, else that of int16, else "none".
RegisteredFor16 ==
    IF PointerTo(TInt16) \in DOMAIN CustomEncoders THEN CustomEncoders[PointerTo(TInt16)]
    ELSE IF TInt16 \in DOMAIN CustomEncoders THEN CustomEncoders[TInt16]
    ELSE "none"

\* C23: a Marshal of an int16 behind a pointer goes by the registry as it is
\* at the call: with no custom encoder for int16 or *int16 (never added, or
\* added and removed again) the default walker writes the two bytes of the
\* number; with one, the custom encoder runs, whatever was encoded before.
RegistryChangesTakeEffect ==
    (call.op = "MarshalStream" /\ call.arg = Int16Ptr(1, 3) /\ call.dest = Buffer) =>
        CASE RegisteredFor16 = "none" -> call.err = NoErr /\ call.written = <<3, 0>>
          [] RegisteredFor16 = "Write123" -> call.err = NoErr /\ call.written = <<1, 2, 3>>
          [] RegisteredFor16 = "Fail" -> call.err # NoErr /\ call.written = <<>>


\* C24: no concrete type is twice in the variant list the registry holds for
\* an interface, so a type has one variant index.
NoVariantTwice ==
    \A t \in DOMAIN EnumTypes :
        \A i, j \in 1..Len(EnumTypes[t]) :
            EnumTypes[t][i] = EnumTypes[t][j] => i = j


\* The marked field of the struct under test and its value.
MarkedField == Elem(input.v).t.fields[2]
MarkedValue == FieldOf(Elem(input.v), 2)
ElementsMarked ==
    /\ MarkedField.opts.TypeOptions.ArrayElement # Nil
    /\ MarkedField.opts.TypeOptions.ArrayElement.AsByteArray

\* ULEB128(len(p)) and then p.
Framed(p) == ULEB128(NatToWord(Len(p))) \o p

\* The elements i, i + 1, ... of the marked field, each encoded on its own
\* and framed, up to the first that does not encode.
RECURSIVE FramedElements(_)
FramedElements(i) ==
    IF i > Len(MarkedValue.x.items) THEN [bytes |-> <<>>, err |-> NoErr]
    ELSE LET p == MarshalUnder(PtrTo(MarkedValue.t.elem, MarkedValue.x.items[i]), output.order)
         IN  IF p.err # NoErr THEN [bytes |-> <<>>, err |-> p.err]
             ELSE [bytes |-> Framed(p.bytes) \o FramedElements(i + 1).bytes,
                   err |-> FramedElements(i + 1).err]

\* The encoding of the value of the marked field without the field's own
\* mark: its bytes, up to the failure if there is one.
Unwrapped ==
    IF ElementsMarked
    THEN [bytes |-> <<Len(MarkedValue.x.items)>> \o FramedElements(1).bytes,
          err |-> FramedElements(1).err]
    ELSE MarshalUnder(PtrTo(MarkedValue.t, MarkedValue.x), output.order)

\* C25: a field or element marked as-byte-array reaches the sink as
\* ULEB128(len(p)) and then p, p being the encoding of the value without
\* the mark; when that encoding fails none of its bytes reach the sink, and
\* the sink is the Encoder's again afterwards: the fields before are all
\* that it holds after a failure, and the field after follows the payload.
\* A map whose key does not encode leaves only the map's length.
ByteArrayFraming ==
    /\ (output.kind = "marshal" /\ input.kind = "bytearr") =>
          IF Unwrapped.err # NoErr
          THEN /\ output.err # NoErr
               /\ output.written =
                     Fit(<<9>> \o (IF MarkedField.opts.AsByteArray THEN <<>> ELSE Unwrapped.bytes),
                         output.dest)
          ELSE LET all == <<9>> \o (IF MarkedField.opts.AsByteArray
                                    THEN Framed(Unwrapped.bytes) ELSE Unwrapped.bytes) \o <<7>>
               IN  /\ output.written = Fit(all, output.dest)
                   /\ output.err = NoErr <=> Fit(all, output.dest) = all
    /\ (output.kind = "marshal" /\ input.kind = "nilkey") =>
          /\ output.err # NoErr
          /\ output.written = Fit(<<Cardinality(DOMAIN Elem(input.v).x.m)>>, output.dest)

ByteArrayFramingWitness ==
    /\ output.kind = "marshal" /\ input.kind = "bytearr"
    /\ output.dest = Buffer
    /\ MarkedField.opts = BothAsByteArray
    /\ MarkedValue.t = TSlice(PointerTo(TInt16))
    /\ MarkedValue.x.items = <<Ptr(1, IntV(3)), Ptr(1, IntV(3))>>
    /\ output.written = <<9, 7, 2, 2, 3, 0, 2, 3, 0, 7>>


\* The struct under test, whichever way it was handed to Encode.
Struct == IF input.v.t.kind = "Ptr" THEN Elem(input.v) ELSE input.v
ByteField == Struct.t.fields[2]
ByteValue == FieldOf(Struct, 2)

\* The bytes of the loop of encodeArray over the elements of the byte field.
PerElementBytes ==
    Only({ encodeArrayElems(ti.e, ByteValue, ByteField.opts.TypeOptions, ti.info, 1).e.w.buf
         : ti \in {getEncodedTypeInfo(NewEncoder(Buffer, 1), TUint8)} })

\* C26: the bytes of a []uint8 or [N]uint8 are those of the loop over its
\* elements under the element options, whether or not the value is
\* addressable.
RawBytesArePerElementBytes ==
    (output.kind = "marshal" /\ input.kind = "bytes" /\ output.dest = Buffer) =>
        output.written =
            <<9>> \o (IF ByteValue.t.kind = "Slice" THEN <<Len(ByteValue.x.items)>> ELSE <<>>)
                 \o PerElementBytes \o <<7>>

\* C26, its last sentence: handing the struct to Encode by value or by
\* pointer gives the same bytes.
AddressabilityDoesNotMatter ==
    (output.kind = "marshal" /\ input.kind = "bytes" /\ output.dest = Buffer) =>
        output.written =
            MarshalUnder(IF input.v.t.kind = "Ptr" THEN Value(Struct.t, Struct.x, FALSE)
                         ELSE PtrTo(Struct.t, Struct.x), output.order).bytes


\* The Encoder of the last call had it started on an empty cache.
FromScratch ==
    Encode([NewEncoderWithOpts(call.dest, call.cfg, 0) EXCEPT !.typeInfoCache = EmptyCache],
           input.v)

\* C27: an Encoder on the shared cache works by the plans it would compute
\* from scratch under its own configuration, and so writes the same bytes.
CacheIsTransparent ==
    call.op = "EncodeWithOpts" =>
        /\ \A t \in DOMAIN FromScratch.typeInfoCache :
              enc.typeInfoCache[t] = FromScratch.typeInfoCache[t]
        /\ enc.w.buf = FromScratch.w.buf
        /\ enc.err = FromScratch.err


\* The sink of the last Marshal took fewer bytes than the same encode
\* writes to a sink without a limit: the first error of the operation was
\* the sink's.
SinkFailedFirst ==
    /\ output.kind = "marshal" /\ input.kind = "value"
    /\ output.dest # Buffer
    /\ Len(MarshalStream(input.v, Buffer, output.order).w.buf) > output.dest.room

\* C28: the error a failed encode stores has the first error of the
\* operation in its chain; when that was the sink's write error, the chain
\* of the stored error ends in it.
FirstErrorIsKept ==
    SinkFailedFirst =>
        \E i \in 1..Len(output.err) : output.err[i] = "io.ErrShortWrite"

=============================================================================
